---- MODULE Spec2Model ----
(***************************************************************************)
(* Model of the tool-orchestration engine (core/engine.py) with the two    *)
(* transports it drives (core/mcp_stdio.py, core/mcp_http.py).             *)
(*                                                                         *)
(* Strings are sequences of one-character strings where the code looks     *)
(* inside them (paths, model text); fixed messages are one-token           *)
(* sequences.  A Python dict is a function from its keys; a Python         *)
(* exception is a record [exc |-> <class>, msg |-> <str(e)>].              *)
(***************************************************************************)
EXTENDS Integers, Sequences, FiniteSets, TLC

\* largest maxHops a caller passes to chatTurn in the model
MaxHopsBound == 3

\* str(e)[:200] in the backend-failure handlers
DetailLimit == 200

----------------------------------------------------------------------------
(* Generic string helpers                                                  *)

None == [none |-> TRUE]

Min(a, b) == IF a <= b THEN a ELSE b

\* s[:n]
Truncate(s, n) == SubSeq(s, 1, Min(Len(s), n))

\* s.startswith(p)
StartsWith(s, p) == Len(p) <= Len(s) /\ SubSeq(s, 1, Len(p)) = p

Whitespace == {" ", "\n", "\t"}

RECURSIVE LStrip(_)
LStrip(s) == IF s # <<>> /\ Head(s) \in Whitespace THEN LStrip(Tail(s)) ELSE s

RECURSIVE RStrip(_)
RStrip(s) ==
  IF s # <<>> /\ s[Len(s)] \in Whitespace THEN RStrip(SubSeq(s, 1, Len(s) - 1)) ELSE s

\* str.strip()
Strip(s) == RStrip(LStrip(s))

\* sep.join(parts)
RECURSIVE Join(_, _)
Join(parts, sep) ==
  IF parts = <<>> THEN <<>>
  ELSE IF Len(parts) = 1 THEN parts[1]
  ELSE parts[1] \o sep \o Join(Tail(parts), sep)

\* [x for x in s if Test(x)]
RECURSIVE SelectNonEmpty(_)
SelectNonEmpty(s) ==
  IF s = <<>> THEN <<>>
  ELSE IF Head(s) # <<>> THEN <<Head(s)>> \o SelectNonEmpty(Tail(s))
  ELSE SelectNonEmpty(Tail(s))

----------------------------------------------------------------------------
(* Path sandbox: isPathAllowed, sanitizeMcpArgs                            *)

Sep == "/"

\* the process's working directory, which os.path.abspath prepends to a
\* relative path
Cwd == <<"/", "w">>

\* str.split("/")
RECURSIVE SplitSep(_, _)
SplitSep(s, cur) ==
  IF s = <<>> THEN <<cur>>
  ELSE IF Head(s) = Sep THEN <<cur>> \o SplitSep(Tail(s), <<>>)
  ELSE SplitSep(Tail(s), Append(cur, Head(s)))

\* the component loop of posixpath.normpath: "" and "." are dropped, ".."
\* removes the component before it (and is dropped at the root)
RECURSIVE NormComps(_, _)
NormComps(comps, acc) ==
  IF comps = <<>> THEN acc
  ELSE LET c == Head(comps) IN
       IF c = <<>> \/ c = <<".">> THEN NormComps(Tail(comps), acc)
       ELSE IF c = <<".", ".">>
            THEN NormComps(Tail(comps),
                           IF acc = <<>> THEN acc ELSE SubSeq(acc, 1, Len(acc) - 1))
            ELSE NormComps(Tail(comps), Append(acc, c))

\* normpath's initial_slashes: exactly two leading slashes are kept, any
\* other number becomes one
InitialSlashes(full) ==
  IF Len(full) >= 2 /\ full[1] = Sep /\ full[2] = Sep /\ ~(Len(full) >= 3 /\ full[3] = Sep)
  THEN <<Sep, Sep>> ELSE <<Sep>>

\* os.path.abspath(p) in parts: the path joined with the cwd when it is
\* relative, its leading slashes and its normalized components
AbsParts(p) ==
  LET full == IF p # <<>> /\ Head(p) = Sep THEN p ELSE Cwd \o <<Sep>> \o p
  IN  [slashes |-> InitialSlashes(full),
       comps   |-> NormComps(SplitSep(full, <<>>), <<>>)]

\* os.path.abspath(p)
abspath(p) == AbsParts(p).slashes \o Join(AbsParts(p).comps, <<Sep>>)

isPathAllowed(pathStr, allowedRoots) ==
  LET ap == abspath(pathStr) IN
  \E i \in 1..Len(allowedRoots) :
    LET base == abspath(allowedRoots[i]) IN
    ap = base \/ StartsWith(ap, base \o <<Sep>>)

\* the fixed list of path-bearing argument names
PathKeys == <<"xml_path", "logo_path", "out_path", "dir_xml", "out_dir">>

\* Tool arguments as the model hands them over: a dict, or something that
\* is not a dict (a list)
IsDict(args) == args.kind = "dict"
EmptyDict == [kind |-> "dict", map |-> <<>>]
HasKey(args, k) == k \in DOMAIN args.map

\* mutant: only xml_path is checked
FirstBlockedXmlOnly(args, allowedRoots) ==
  IF /\ HasKey(args, "xml_path") /\ args.map["xml_path"] # <<>>
     /\ ~isPathAllowed(args.map["xml_path"], allowedRoots)
  THEN 1 ELSE 0

\* the first path-bearing key, in list order, with a non-empty disallowed
\* value; 0 if there is none
FirstBlocked(args, allowedRoots) ==
  LET bad == {i \in 1..Len(PathKeys) :
                /\ HasKey(args, PathKeys[i])
                /\ args.map[PathKeys[i]] # <<>>
                /\ ~isPathAllowed(args.map[PathKeys[i]], allowedRoots)}
  IN  IF bad = {} THEN 0 ELSE CHOOSE i \in bad : \A j \in bad : i <= j

\* mutant: only the path-bearing keys are handed on
sanitizeMcpArgsDropsOthers(args, allowedRoots) ==
  IF ~IsDict(args) THEN [ret |-> EmptyDict]
  ELSE LET i == FirstBlocked(args, allowedRoots) IN
       IF i = 0
       THEN [ret |-> [kind |-> "dict",
                      map  |-> [k \in {PathKeys[j] : j \in 1..Len(PathKeys)} \cap DOMAIN args.map
                                  |-> args.map[k]]]]
       ELSE [exc |-> "ValueError", msg |-> <<"Blocked path", args.map[PathKeys[i]]>>]

\* sanitizeMcpArgs: [ret |-> args] or [exc |-> ..., msg |-> ...]
sanitizeMcpArgs(args, allowedRoots) ==
  IF ~IsDict(args) THEN [ret |-> EmptyDict]
  ELSE LET i == FirstBlocked(args, allowedRoots) IN
       IF i = 0 THEN [ret |-> args]
       ELSE [exc |-> "ValueError", msg |-> <<"Blocked path", args.map[PathKeys[i]]>>]

Raised(r) == "exc" \in DOMAIN r

----------------------------------------------------------------------------
(* JSON text and Python values.  A text is either the JSON serialization   *)
(* of a value in some layout ("canonical" is the one json.dumps writes),   *)
(* or a text that is not JSON.  json.loads forgets the layout; json.dumps  *)
(* always writes the canonical one.                                        *)

PyStr(s)  == [py |-> "str", s |-> s]
PyDict(d) == [py |-> "dict", d |-> d]

JsonText(v, layout) == [t |-> "json", v |-> v, layout |-> layout]
PlainText(s)        == [t |-> "plain", s |-> s]
EmptyText           == PlainText("")

\* json.loads(text): the value, or JSONDecodeError
json_loads(text) ==
  IF text.t = "json" THEN [ret |-> text.v]
  ELSE [exc |-> "JSONDecodeError", msg |-> <<"Expecting value">>]

\* mutant: str(value) in place of json.dumps: a str is written as it is, any
\* other value in Python's notation, which is not JSON
json_dumpsAsStr(v) ==
  IF v.py = "str" THEN v.s ELSE [t |-> "plain", s |-> <<"repr">>]

\* json.dumps(value, ensure_ascii=False)
json_dumps(v) == JsonText(v, "canonical")

\* a text as the Python str it is read as
AsStr(text) == PyStr(text)

----------------------------------------------------------------------------
(* What a provider does with one request                                   *)

TextBlock(text)  == [type |-> "text", text |-> text]
ImageBlock       == [type |-> "image", data |-> "png"]

\* a JSON-RPC result {content: [...]}, a JSON-RPC error {code, message}, a
\* non-success HTTP status (service transport only), or no answer at all
AnsResult(content) == [kind |-> "result", result |-> [content |-> content]]
AnsError(code)     == [kind |-> "error", error |-> [code |-> code, message |-> "tool failed"]]
AnsStatus(code)    == [kind |-> "status", status |-> code]
AnsSilent          == [kind |-> "silent"]

\* an HTTP response of the service as it is on the wire: a status and a
\* decoded JSON body
AnsHttp(status, body) == [kind |-> "http", status |-> status, body |-> body]

----------------------------------------------------------------------------
(* Process transport (McpStdioClient)                                      *)

\* rpc(): the response whose id matches, as received, or TimeoutError when
\* none arrives before the deadline
StdioRpc(answer) ==
  CASE answer.kind = "result" -> [ret |-> [jsonrpc |-> "2.0", result |-> answer.result]]
    [] answer.kind = "error"  -> [ret |-> [jsonrpc |-> "2.0", error |-> answer.error]]
    [] OTHER -> [exc |-> "TimeoutError", msg |-> <<"MCP server did not respond on time.">>]

\* McpStdioClient.callTool
StdioCallTool(name, arguments, answer) == StdioRpc(answer)

\* prettyJsonFromMcpResult: the text of the first content block when that
\* block is a text block, "" otherwise
prettyJsonFromMcpResult(result) ==
  LET res     == IF "result" \in DOMAIN result THEN result.result ELSE <<>>
      content == IF "content" \in DOMAIN res THEN res.content ELSE <<>>
  IN  IF content # <<>> /\ content[1].type = "text"
      THEN (IF "text" \in DOMAIN content[1] THEN content[1].text ELSE EmptyText)
      ELSE EmptyText

\* parseTextBlock: json.loads(raw), or raw itself when that raises
parseTextBlock(result) ==
  LET raw == prettyJsonFromMcpResult(result)
      r   == json_loads(raw)
  IN  IF Raised(r) THEN AsStr(raw) ELSE r.ret

----------------------------------------------------------------------------
(* Service transport (McpHttpClient)                                       *)

\* the HTTP response that carries a provider's answer
Wire(answer) ==
  CASE answer.kind = "http"   -> answer
    [] answer.kind = "status" -> AnsHttp(answer.status, <<>>)
    [] answer.kind = "error"  -> AnsHttp("200", [jsonrpc |-> "2.0", error |-> answer.error])
    [] OTHER -> AnsHttp("200", [jsonrpc |-> "2.0", result |-> answer.result])

\* resp.raise_for_status() does not raise
StatusOk(status) == status = "200"

\* mutant: the "error" field of the body is looked at before the status
HttpClassifyBodyFirst(resp) ==
  IF "error" \in DOMAIN resp.body
  THEN [exc |-> "RuntimeError", msg |-> <<"error", resp.body.error>>]
  ELSE IF ~StatusOk(resp.status)
       THEN [exc |-> "HTTPError", msg |-> <<"status", resp.status>>]
       ELSE [ret |-> resp.body.result]

\* rpc() on a received response: raise_for_status, then the "error" field,
\* then data["result"]
HttpClassify(resp) ==
  IF ~StatusOk(resp.status)
  THEN [exc |-> "HTTPError", msg |-> <<"status", resp.status>>]
  ELSE IF "error" \in DOMAIN resp.body
       THEN [exc |-> "RuntimeError", msg |-> <<"error", resp.body.error>>]
       ELSE [ret |-> resp.body.result]

\* rpc(): one POST; no response at all is a connection failure
HttpRpc(answer) ==
  IF answer.kind = "silent"
  THEN [exc |-> "ConnectionError", msg |-> <<"request failed">>]
  ELSE HttpClassify(Wire(answer))

\* McpHttpClient.callTool: the result re-wrapped in the stdio envelope
HttpCallTool(name, args, answer) ==
  LET r == HttpRpc(answer) IN
  IF Raised(r) THEN r
  ELSE LET result == r.ret
           text   == IF "content" \in DOMAIN result /\ result.content # <<>>
                     THEN (IF "text" \in DOMAIN result.content[1]
                           THEN result.content[1].text ELSE EmptyText)
                     ELSE json_dumps(PyDict(result))
       IN  [ret |-> [result |-> [content |-> <<TextBlock(text)>>]]]

\* cli.callTool(name, args), dispatched on the transport variant
ClientCallTool(cli, name, args, answer) ==
  IF cli.kind = "stdio" THEN StdioCallTool(name, args, answer)
  ELSE HttpCallTool(name, args, answer)

----------------------------------------------------------------------------
(* ChatEngine: state                                                       *)

VARIABLES
  routerDebug,    \* self.routerDebug
  toolsCatalog,   \* self.toolsCatalog: {} until start() publishes {"result": merged}
  toolIndex,      \* self._toolIndex: tool name -> owning client
  toolsCache,     \* McpHttpClient.tools_cache
  proc,           \* McpStdioClient.proc: 0 for None, else the process spawned last
  procs,          \* every process the client spawned: "running", "asked" (terminate
                  \* was sent, the process has not exited yet) or "exited"
  outQ,           \* McpStdioClient.outQ: the lines the pump threads enqueued
  _id,            \* McpStdioClient._id
  _lock,          \* McpStdioClient._lock: 0 when free, else the thread holding it
  thr,            \* per calling thread: the client method it runs and its locals
  server,         \* the provider program whose main() runs: "fel" or "ow"
  mainReq,        \* main()'s local req: unbound until a line has been parsed
  op,             \* the engine method called last
  ret,            \* what that call returned or raised; None while it runs
  pc,             \* "idle" (no call running), "loop" / "tools" (inside chatTurn),
                  \* "done" (the call has returned or raised, ret holds the outcome)
  history,        \* chatTurn's arguments
  maxHops,
  hop,            \* iterations of `for _ in range(maxHops)` begun
  tools,          \* chatTurn's locals
  messages,
  trace,
  toolCalls,
  blocks,
  toolUses,
  tuIdx,
  resultsForModel,
  modelCalls,     \* history variable: calls of client.messages.create in this turn
  requests,       \* history variable: requests this call sent to transports
  invoked,        \* history variable: the invocations this call attempted
                  \* (tool-use blocks of chatTurn, the arguments of callTool)
  decisions       \* history variable: how each model call of this turn ended

providerVars == <<server, mainReq>>
stdioVars  == <<proc, procs, outQ, _id, _lock, thr, providerVars>>
engineVars == <<routerDebug, toolsCatalog, toolIndex, toolsCache, stdioVars>>
turnVars   == <<history, maxHops, hop, tools, messages, trace, toolCalls, blocks,
                toolUses, tuIdx, resultsForModel>>
ghostVars  == <<modelCalls, requests, invoked, decisions>>
vars       == <<engineVars, op, ret, pc, turnVars, ghostVars>>

\* allowedRoots or ["data/xml", "data/out", "data/logos"], shortened to
\* d/x, d/o, d/l
DefaultRoots == << <<"d", "/", "x">>, <<"d", "/", "o">>, <<"d", "/", "l">> >>
allowedRoots == DefaultRoots

\* self.stdioClients and self.httpClient as the constructor builds them
StdioClient(n) == [kind |-> "stdio", n |-> n]
HttpClient     == [kind |-> "http"]
stdioClients   == <<StdioClient(1), StdioClient(2)>>
httpClient     == HttpClient

Descriptor(name) ==
  [name |-> name, description |-> "d", inputSchema |-> [type |-> "object"]]

\* d[k] = v on a dict held as a function
DictSet(d, k, v) == [x \in DOMAIN d \cup {k} |-> IF x = k THEN v ELSE d[x]]

\* a call's locals while no call is running
BlankTurn ==
  /\ history = <<>> /\ maxHops = 0 /\ hop = 0 /\ tools = <<>>
  /\ messages = <<>> /\ trace = <<>> /\ toolCalls = <<>> /\ blocks = <<>>
  /\ toolUses = <<>> /\ tuIdx = 0 /\ resultsForModel = <<>>

BlankTurnNext ==
  /\ history' = <<>> /\ maxHops' = 0 /\ hop' = 0 /\ tools' = <<>>
  /\ messages' = <<>> /\ trace' = <<>> /\ toolCalls' = <<>> /\ blocks' = <<>>
  /\ toolUses' = <<>> /\ tuIdx' = 0 /\ resultsForModel' = <<>>

\* the calling threads of one McpStdioClient
Threads == {1, 2}

\* a thread that runs no client method.  pc is its place in the method, op
\* the method ("initialize" for start()), tmp and id nextId's local and its
\* result, expired whether rpc's deadline has passed, out the outcome;
\* stale (history) tells that rpc discarded a response with another id,
\* answered (history) that the response to its request was enqueued before
\* its deadline passed
IdleThread ==
  [pc |-> "idle", op |-> "none", tmp |-> 0, id |-> 0, expired |-> FALSE, stale |-> FALSE,
   answered |-> FALSE, out |-> None]

\* McpStdioClient.__init__
\* a local that was never assigned
Unbound == [unbound |-> TRUE]

StdioInit ==
  /\ proc = 0 /\ procs = <<>> /\ outQ = <<>> /\ _id = 0 /\ _lock = 0
  /\ thr = [c \in Threads |-> IdleThread]
  /\ server = "none" /\ mainReq = Unbound

Init ==
  /\ StdioInit
  /\ routerDebug \in BOOLEAN
  /\ toolsCatalog = <<>>
  /\ toolIndex = <<>>
  /\ toolsCache = <<>>
  /\ op = "none"
  /\ ret = None
  /\ pc = "idle"
  /\ BlankTurn
  /\ modelCalls = 0 /\ requests = <<>> /\ invoked = <<>> /\ decisions = <<>>

----------------------------------------------------------------------------
(* ChatEngine.start                                                        *)

\* mutant: a name that already has an owner keeps it
RECURSIVE RegisterKeepFirst(_, _, _)
RegisterKeepFirst(index, ts, cli) ==
  IF ts = <<>> THEN index
  ELSE RegisterKeepFirst(IF Head(ts).name \in DOMAIN index THEN index
                         ELSE DictSet(index, Head(ts).name, cli),
                         Tail(ts), cli)

\* for t in tc.get("result", {}).get("tools", []): merged.append(t);
\* _toolIndex[name] = cli
RECURSIVE Register(_, _, _)
Register(index, ts, cli) ==
  IF ts = <<>> THEN index
  ELSE Register(DictSet(index, Head(ts).name, cli), Tail(ts), cli)

\* mutant: the catalog is overwritten by each transport's list
MergeToolsOverwrites(merged, ts) == ts

\* merged["tools"].append(t) for each listed tool
MergeTools(merged, ts) == merged \o ts

\* the tools of one tools/list response, [] when it carries no result.tools
ListedTools(tc) ==
  IF "result" \in DOMAIN tc /\ "tools" \in DOMAIN tc.result THEN tc.result.tools ELSE <<>>

\* What a provider does when the engine starts it: answers initialize and
\* tools/list with `tools`, answers tools/list with a JSON-RPC error, or
\* fails (no process, no answer, HTTP failure)
ListsTools(ts) == [kind |-> "result", result |-> [tools |-> ts]]

\* cli.start(); cli.listTools() of a process transport
StdioStartAndList(answer) ==
  CASE answer.kind = "silent" -> [exc |-> "TimeoutError", msg |-> <<"MCP server did not respond on time.">>]
    [] OTHER -> StdioRpc(answer)

\* McpHttpClient.listTools: the cache when it is filled, else one rpc whose
\* result fills it.  [ret |-> {"result": cache}, cache |-> new cache] or an
\* exception
HttpListTools(cache, answer) ==
  IF cache # <<>> THEN [ret |-> [result |-> cache], cache |-> cache]
  ELSE LET r == HttpRpc(answer) IN
       IF Raised(r) THEN r ELSE [ret |-> [result |-> r.ret], cache |-> r.ret]

\* a tools/list request as the history variable `requests` logs it
ToolsListRequest(cli, answer) ==
  [to |-> cli, method |-> "tools/list", name |-> "", arguments |-> None, answer |-> answer]

\* the initialize request McpStdioClient.start() sends
InitializeRequest(cli, answer) ==
  [to |-> cli, method |-> "initialize", name |-> "", arguments |-> None, answer |-> answer]

\* a provider's answer to initialize
Initialized == [kind |-> "result", result |-> [serverInfo |-> "s"]]

\* what cli.start(); cli.listTools() sends to a provider that behaves as
\* `answer` says: a silent one gets the initialize request only
StartRequests(cli, answer) ==
  IF answer.kind = "silent" THEN <<InitializeRequest(cli, answer)>>
  ELSE <<InitializeRequest(cli, Initialized), ToolsListRequest(cli, answer)>>

\* the requests of the n-th invocation of a call
SentBy(n, sent) == [i \in 1..Len(sent) |-> [call |-> n, req |-> sent[i]]]

\* the stdio loop of start(): [index, merged, failed, sent]
RECURSIVE StartStdio(_, _, _, _, _)
StartStdio(i, answers, index, merged, sent) ==
  IF i > Len(stdioClients)
  THEN [index |-> index, merged |-> merged, failed |-> FALSE, sent |-> sent]
  ELSE LET tc  == StdioStartAndList(answers[i])
           req == SentBy(i, StartRequests(stdioClients[i], answers[i]))
       IN
       IF Raised(tc)
       THEN [index |-> index, merged |-> merged, failed |-> TRUE, exc |-> tc,
             sent |-> sent \o req]
       ELSE StartStdio(i + 1, answers,
                       Register(index, ListedTools(tc.ret), stdioClients[i]),
                       MergeTools(merged, ListedTools(tc.ret)), sent \o req)

\* answers[i] is what stdio client i does, httpAnswer what the service does
Start(answers, httpAnswer) ==
  /\ pc = "idle"
  /\ LET s == StartStdio(1, answers, toolIndex, <<>>, <<>>) IN
     IF s.failed
     THEN /\ toolIndex' = s.index
          /\ ret' = s.exc
          /\ requests' = s.sent
          /\ UNCHANGED <<toolsCatalog, toolsCache>>
     ELSE LET h    == HttpListTools(toolsCache, httpAnswer)
              hreq == IF toolsCache # <<>> THEN <<>>
                      ELSE SentBy(Len(stdioClients) + 1,
                                  <<ToolsListRequest(httpClient, httpAnswer)>>)
          IN
          /\ requests' = s.sent \o hreq
          /\ IF Raised(h)
             THEN /\ toolIndex' = s.index
                  /\ ret' = h
                  /\ UNCHANGED <<toolsCatalog, toolsCache>>
             ELSE /\ toolIndex' = Register(s.index, ListedTools(h.ret), httpClient)
                  /\ toolsCache' = h.cache
                  /\ toolsCatalog' = [result |-> [tools |-> MergeTools(s.merged, ListedTools(h.ret))]]
                  /\ ret' = [ret |-> None]
  /\ op' = "start"
  /\ pc' = "done"
  /\ UNCHANGED <<routerDebug, stdioVars, turnVars, modelCalls, invoked, decisions>>

----------------------------------------------------------------------------
(* ChatEngine.listTools                                                    *)

\* mutant: listTools rebuilds the catalog from the service transport's cache
ListToolsReloads ==
  /\ pc = "idle"
  /\ toolsCatalog' = [result |-> [tools |-> ListedTools([result |-> toolsCache])]]
  /\ ret' = [ret |-> toolsCatalog']
  /\ op' = "listTools"
  /\ pc' = "done"
  /\ UNCHANGED <<routerDebug, toolIndex, toolsCache, stdioVars, turnVars, ghostVars>>

\* return self.toolsCatalog
ListTools ==
  /\ pc = "idle"
  /\ ret' = [ret |-> toolsCatalog]
  /\ op' = "listTools"
  /\ pc' = "done"
  /\ UNCHANGED <<engineVars, turnVars, ghostVars>>

----------------------------------------------------------------------------
(* ChatEngine.callTool                                                     *)

\* `args or {}`: None, {} and [] all become {}
OrEmpty(args) ==
  IF args = None THEN EmptyDict
  ELSE IF IsDict(args) /\ args.map = <<>> THEN EmptyDict
  ELSE IF ~IsDict(args) /\ args.items = <<>> THEN EmptyDict
  ELSE args

UnknownTool(name) == [exc |-> "ValueError", msg |-> <<"Unknown tool", name>>]

\* a request as the history variable `requests` logs it: what was sent, to
\* whom, and what the provider did with it
ToolsCallRequest(cli, name, arguments, answer) ==
  [to |-> cli, method |-> "tools/call", name |-> name, arguments |-> arguments,
   answer |-> answer]


\* the body of callTool: look the name up, sanitize, call, parse.
\* [out |-> [ret |-> value] or the exception, sent |-> the requests made]
EngineCallTool(index, name, args, answer) ==
  IF name \notin DOMAIN index THEN [out |-> UnknownTool(name), sent |-> <<>>]
  ELSE LET cli  == index[name]
           safe == sanitizeMcpArgs(OrEmpty(args), allowedRoots)
       IN  IF Raised(safe) THEN [out |-> safe, sent |-> <<>>]
           ELSE LET r == ClientCallTool(cli, name, safe.ret, answer) IN
                [out  |-> IF Raised(r) THEN r ELSE [ret |-> parseTextBlock(r.ret)],
                 sent |-> <<ToolsCallRequest(cli, name, safe.ret, answer)>>]

CallTool(name, args, answer) ==
  /\ pc = "idle"
  /\ LET c == EngineCallTool(toolIndex, name, args, answer) IN
     /\ ret' = c.out
     /\ requests' = SentBy(1, c.sent)
  /\ invoked' = <<[name |-> name, input |-> args]>>
  /\ op' = "callTool"
  /\ pc' = "done"
  /\ UNCHANGED <<engineVars, turnVars, modelCalls, decisions>>

----------------------------------------------------------------------------
(* ChatEngine.chatTurn                                                     *)

\* the content of a message: a str, or a list of content blocks
Str(s)     == [str |-> s]
Blocks(bs) == [blocks |-> bs]

\* content blocks of a model response
MText(text)               == [type |-> "text", text |-> text]
MToolUse(id, name, input) == [type |-> "tool_use", id |-> id, name |-> name, input |-> input]
MThinking                 == [type |-> "thinking"]

\* resp.usage
UsageObj ==
  [input_tokens |-> [n |-> 7], output_tokens |-> [n |-> 5],
   cache_creation_input_tokens |-> None, cache_read_input_tokens |-> [n |-> 0]]

\* `getattr(u, name, 0) or 0`: a counter is held as [n |-> value], or is None
Or0(x) == IF "n" \in DOMAIN x THEN x.n ELSE 0

usageDict(resp) ==
  IF resp.usage = None THEN <<>>
  ELSE [input_tokens |-> Or0(resp.usage.input_tokens),
        output_tokens |-> Or0(resp.usage.output_tokens),
        cache_creation_input_tokens |-> Or0(resp.usage.cache_creation_input_tokens),
        cache_read_input_tokens |-> Or0(resp.usage.cache_read_input_tokens)]

\* text and tool_use blocks are forwarded, anything else is dropped
RECURSIVE contentBlocksToParams(_)
contentBlocksToParams(bs) ==
  IF bs = <<>> THEN <<>>
  ELSE LET b == Head(bs) IN
       (CASE b.type = "text" -> <<[type |-> "text", text |-> b.text]>>
          [] b.type = "tool_use" ->
               <<[type |-> "tool_use", id |-> b.id, name |-> b.name, input |-> OrEmpty(b.input)]>>
          [] OTHER -> <<>>)
       \o contentBlocksToParams(Tail(bs))

\* the model never sends tool_result blocks, so the summary of a response
\* is the same selection
serializeBlocks(bs) == contentBlocksToParams(bs)

RECURSIVE buildAnthropicTools(_)
buildAnthropicTools(ts) ==
  IF ts = <<>> THEN <<>>
  ELSE <<[name |-> Head(ts).name, description |-> Head(ts).description,
          input_schema |-> Head(ts).inputSchema]>> \o buildAnthropicTools(Tail(ts))

\* mutant: the tool-use blocks are taken last first
RECURSIVE ToolUsesOfReversed(_)
ToolUsesOfReversed(bs) ==
  IF bs = <<>> THEN <<>>
  ELSE ToolUsesOfReversed(Tail(bs)) \o
       (IF Head(bs).type = "tool_use" THEN <<Head(bs)>> ELSE <<>>)

\* [b for b in blocks if b.type == "tool_use"]
RECURSIVE ToolUsesOf(_)
ToolUsesOf(bs) ==
  IF bs = <<>> THEN <<>>
  ELSE (IF Head(bs).type = "tool_use" THEN <<Head(bs)>> ELSE <<>>) \o ToolUsesOf(Tail(bs))

\* [b.text for b in blocks if b.type == "text"]
RECURSIVE TextBlocksOf(_)
TextBlocksOf(bs) ==
  IF bs = <<>> THEN <<>>
  ELSE (IF Head(bs).type = "text" THEN <<Head(bs).text>> ELSE <<>>) \o TextBlocksOf(Tail(bs))

Placeholder == <<"(no answer)">>

\* mutant: the joined text is not stripped
FinalTextUnstripped(textBlocks) ==
  LET joined == Join(SelectNonEmpty(textBlocks), <<"\n">>)
  IN  IF joined = <<>> THEN Placeholder ELSE joined

\* mutant: no placeholder for an empty text
FinalTextNoPlaceholder(textBlocks) ==
  Strip(Join(SelectNonEmpty(textBlocks), <<"\n">>))

\* "\n".join([t for t in textBlocks if t]).strip() or "(no answer)"
FinalText(textBlocks) ==
  LET joined == Strip(Join(SelectNonEmpty(textBlocks), <<"\n">>))
  IN  IF joined = <<>> THEN Placeholder ELSE joined

RateLimitFriendly    == <<"The request exceeded a limit.">>
ApiStatusFriendly(c) == <<"The model could not respond (status ", c, ").">>
UnknownFriendly      == <<"There was a problem generating the response.">>

TurnResult(finalText, tr, calls) ==
  [ret |-> [finalText |-> finalText, router |-> [trace |-> tr], tools |-> [calls |-> calls]]]

Nudge == <<"Return one concise answer in the user's language; do not show raw JSON.">>

\* mutant: the loop bound off by one (range(maxHops + 1))
LoopContinuesOffByOne == hop <= maxHops

\* `for _ in range(maxHops)` has another iteration
LoopContinues == hop < maxHops

ChatTurnCall(h, userText, n) ==
  /\ pc = "idle"
  /\ op' = "chatTurn"
  /\ IF "result" \notin DOMAIN toolsCatalog
     THEN \* buildAnthropicTools: toolsCatalog["result"]
          /\ ret' = [exc |-> "KeyError", msg |-> <<"result">>]
          /\ pc' = "done"
          /\ UNCHANGED turnVars
     ELSE /\ ret' = None
          /\ tools' = buildAnthropicTools(toolsCatalog.result.tools)
          /\ messages' = h \o <<[role |-> "user", content |-> Str(userText)]>>
          /\ trace' = <<>>
          /\ toolCalls' = <<>>
          /\ history' = h
          /\ maxHops' = n
          /\ hop' = 0
          /\ blocks' = <<>> /\ toolUses' = <<>> /\ tuIdx' = 0 /\ resultsForModel' = <<>>
          /\ pc' = "loop"
  /\ UNCHANGED <<engineVars, ghostVars>>

\* mutant: the error entry is recorded only when diagnostics are on
ErrorTraceDebugOnly(tag, detail) ==
  IF routerDebug
  THEN Append(trace, [decision |-> "error", error |-> tag,
                      detail |-> Truncate(detail, DetailLimit)])
  ELSE trace

\* trace.append({"decision": "error", "error": tag, "detail": str(e)[:200]})
ErrorTrace(tag, detail) ==
  Append(trace, [decision |-> "error", error |-> tag,
                 detail |-> Truncate(detail, DetailLimit)])

\* the "error" tag each except clause records
ErrorTag(f) ==
  CASE f.exc = "RateLimitError" -> "rate_limit"
    [] f.exc = "APIStatusError" -> "api_status"
    [] OTHER -> "unknown"

\* mutant: the message shown to the user ends with str(e)
FriendlyEchoesDetail(f) ==
  (CASE f.exc = "RateLimitError" -> RateLimitFriendly
     [] f.exc = "APIStatusError" -> ApiStatusFriendly(f.status_code)
     [] OTHER -> UnknownFriendly) \o f.detail

\* the `friendly` text of each except clause
Friendly(f) ==
  CASE f.exc = "RateLimitError" -> RateLimitFriendly
    [] f.exc = "APIStatusError" -> ApiStatusFriendly(f.status_code)
    [] OTHER -> UnknownFriendly

\* the three except clauses around messages.create
ModelRaises(f) ==
  /\ pc = "loop"
  /\ LoopContinues
  /\ hop' = hop + 1
  /\ modelCalls' = modelCalls + 1
  /\ decisions' = Append(decisions, "error")
  /\ LET tr == ErrorTrace(ErrorTag(f), f.detail)
     IN  /\ trace' = tr
         /\ ret' = TurnResult(Friendly(f), tr, <<>>)
  /\ pc' = "done"
  /\ UNCHANGED <<engineVars, op, history, maxHops, tools, messages, toolCalls, blocks,
                 toolUses, tuIdx, resultsForModel, requests, invoked>>

\* mutant: only the final hop is recorded
HopTraceFinalOnly(resp) ==
  IF routerDebug /\ ToolUsesOf(resp.content) = <<>>
  THEN Append(trace, [decision |-> "no_tool",
                      blocks |-> serializeBlocks(resp.content),
                      usage |-> usageDict(resp)])
  ELSE trace

\* the router hop record, kept only when diagnostics are on
HopTrace(resp) ==
  IF routerDebug
  THEN Append(trace, [decision |-> IF ToolUsesOf(resp.content) # <<>> THEN "tool_use" ELSE "no_tool",
                      blocks |-> serializeBlocks(resp.content),
                      usage |-> usageDict(resp)])
  ELSE trace

\* a response without tool_use: finalize
ModelFinalizes(resp) ==
  /\ pc = "loop"
  /\ LoopContinues
  /\ ToolUsesOf(resp.content) = <<>>
  /\ hop' = hop + 1
  /\ modelCalls' = modelCalls + 1
  /\ decisions' = Append(decisions, "no_tool")
  /\ blocks' = resp.content
  /\ toolUses' = <<>>
  /\ trace' = HopTrace(resp)
  /\ ret' = TurnResult(FinalText(TextBlocksOf(resp.content)), HopTrace(resp), toolCalls)
  /\ pc' = "done"
  /\ UNCHANGED <<engineVars, op, history, maxHops, tools, messages, toolCalls,
                 tuIdx, resultsForModel, requests, invoked>>

\* mutant: the tool-uses of the last permitted response are not executed
ModelRequestsToolsButLast(resp) ==
  /\ pc = "loop"
  /\ LoopContinues
  /\ ToolUsesOf(resp.content) # <<>>
  /\ hop' = hop + 1
  /\ modelCalls' = modelCalls + 1
  /\ decisions' = Append(decisions, "tool_use")
  /\ blocks' = resp.content
  /\ toolUses' = ToolUsesOf(resp.content)
  /\ tuIdx' = 1
  /\ resultsForModel' = <<>>
  /\ trace' = HopTrace(resp)
  /\ pc' = IF hop + 1 = maxHops THEN "loop" ELSE "tools"
  /\ UNCHANGED <<engineVars, op, ret, history, maxHops, tools, messages, toolCalls,
                 requests, invoked>>

\* a response with tool_use blocks: enter `for tu in toolUses`
ModelRequestsTools(resp) ==
  /\ pc = "loop"
  /\ LoopContinues
  /\ ToolUsesOf(resp.content) # <<>>
  /\ hop' = hop + 1
  /\ modelCalls' = modelCalls + 1
  /\ decisions' = Append(decisions, "tool_use")
  /\ blocks' = resp.content
  /\ toolUses' = ToolUsesOf(resp.content)
  /\ tuIdx' = 1
  /\ resultsForModel' = <<>>
  /\ trace' = HopTrace(resp)
  /\ pc' = "tools"
  /\ UNCHANGED <<engineVars, op, ret, history, maxHops, tools, messages, toolCalls,
                 requests, invoked>>

\* mutant: a transport call that raises is sent a second time
InvokeToolUseRetry(index, toolName, toolArgs, answer) ==
  LET safe == sanitizeMcpArgs(toolArgs, allowedRoots) IN
  IF Raised(safe) THEN [out |-> safe, sent |-> <<>>]
  ELSE IF toolName \notin DOMAIN index THEN [out |-> UnknownTool(toolName), sent |-> <<>>]
  ELSE LET cli == index[toolName]
           r   == ClientCallTool(cli, toolName, safe.ret, answer)
           req == ToolsCallRequest(cli, toolName, safe.ret, answer)
       IN  [out  |-> IF Raised(r) THEN r
                     ELSE [ret |-> parseTextBlock(r.ret), safeArgs |-> safe.ret],
            sent |-> IF Raised(r) THEN <<req, req>> ELSE <<req>>]

\* the try block of one tool-use: sanitize, look the name up, call, parse.
\* [out |-> [ret |-> parsed, safeArgs |-> ...] or the exception, sent |-> requests]
InvokeToolUse(index, toolName, toolArgs, answer) ==
  LET safe == sanitizeMcpArgs(toolArgs, allowedRoots) IN
  IF Raised(safe) THEN [out |-> safe, sent |-> <<>>]
  ELSE IF toolName \notin DOMAIN index THEN [out |-> UnknownTool(toolName), sent |-> <<>>]
  ELSE LET cli == index[toolName]
           r   == ClientCallTool(cli, toolName, safe.ret, answer)
       IN  [out  |-> IF Raised(r) THEN r
                     ELSE [ret |-> parseTextBlock(r.ret), safeArgs |-> safe.ret],
            sent |-> <<ToolsCallRequest(cli, toolName, safe.ret, answer)>>]

\* the tool_result block and the ledger record of one tool-use
ToolResultBlock(toolUseId, out) ==
  IF Raised(out)
  THEN [type |-> "tool_result", tool_use_id |-> toolUseId,
        content |-> <<TextBlock(json_dumps(PyDict([ok |-> FALSE, error |-> out.msg])))>>,
        is_error |-> TRUE]
  ELSE [type |-> "tool_result", tool_use_id |-> toolUseId,
        content |-> <<TextBlock(json_dumps(out.ret))>>]

ToolCallRecord(toolName, toolArgs, out) ==
  IF Raised(out)
  THEN [tool |-> toolName, arguments |-> toolArgs, error |-> out.msg]
  ELSE [tool |-> toolName, arguments |-> out.safeArgs, result |-> out.ret]

\* mutant: the first failing tool-use ends the loop over the tool-uses
ExecToolStopsAtFailure(answer) ==
  /\ pc = "tools"
  /\ tuIdx <= Len(toolUses)
  /\ LET tu       == toolUses[tuIdx]
         toolArgs == OrEmpty(tu.input)
         inv      == InvokeToolUse(toolIndex, tu.name, toolArgs, answer)
     IN  /\ resultsForModel' = Append(resultsForModel, ToolResultBlock(tu.id, inv.out))
         /\ toolCalls' = Append(toolCalls, ToolCallRecord(tu.name, toolArgs, inv.out))
         /\ requests' = requests \o SentBy(Len(invoked) + 1, inv.sent)
         /\ invoked' = Append(invoked, tu)
         /\ tuIdx' = IF Raised(inv.out) THEN Len(toolUses) + 1 ELSE tuIdx + 1
  /\ UNCHANGED <<engineVars, op, ret, pc, history, maxHops, hop, tools, messages, trace,
                 blocks, toolUses, modelCalls, decisions>>

\* one iteration of `for tu in toolUses`
ExecTool(answer) ==
  /\ pc = "tools"
  /\ tuIdx <= Len(toolUses)
  /\ LET tu       == toolUses[tuIdx]
         toolArgs == OrEmpty(tu.input)
         inv      == InvokeToolUse(toolIndex, tu.name, toolArgs, answer)
     IN  /\ resultsForModel' = Append(resultsForModel, ToolResultBlock(tu.id, inv.out))
         /\ toolCalls' = Append(toolCalls, ToolCallRecord(tu.name, toolArgs, inv.out))
         /\ requests' = requests \o SentBy(Len(invoked) + 1, inv.sent)
         /\ invoked' = Append(invoked, tu)
  /\ tuIdx' = tuIdx + 1
  /\ UNCHANGED <<engineVars, op, ret, pc, history, maxHops, hop, tools, messages, trace,
                 blocks, toolUses, modelCalls, decisions>>

\* after the last tool-use: the three appended messages, then `continue`
EndHop ==
  /\ pc = "tools"
  /\ tuIdx > Len(toolUses)
  /\ messages' = messages \o
       << [role |-> "assistant", content |-> Blocks(contentBlocksToParams(blocks))],
          [role |-> "user", content |-> Blocks(resultsForModel)],
          [role |-> "user", content |-> Str(Nudge)] >>
  /\ pc' = "loop"
  /\ UNCHANGED <<engineVars, op, ret, history, maxHops, hop, tools, trace, toolCalls,
                 blocks, toolUses, tuIdx, resultsForModel, ghostVars>>

\* the loop ran out of hops: the return after it
HopsExhausted ==
  /\ pc = "loop"
  /\ ~LoopContinues
  /\ ret' = TurnResult(Placeholder, trace, toolCalls)
  /\ pc' = "done"
  /\ UNCHANGED <<engineVars, op, turnVars, ghostVars>>

----------------------------------------------------------------------------
(* The environment: callers, the model backend, the providers              *)

Dict(m)     == [kind |-> "dict", map |-> m]
ListArgs(l) == [kind |-> "list", items |-> l]

OkPath      == <<"d", "/", "x", "/", "a">>
SiblingPath == <<"d", "/", "x", "2", "/", "a">>
OutsidePath == <<"/", "e">>

Histories ==
  { << [role |-> "user", content |-> Str(<<"h", "i">>)],
       [role |-> "assistant", content |-> Str(<<"y", "o">>)] >> }

UserTexts == { <<"q">> }

ShortDetail == <<"e", "r", "r">>
LongDetail  == [i \in 1..(DetailLimit + 1) |-> "z"]

ModelFailures ==
  { [exc |-> "RateLimitError", detail |-> d, status_code |-> "429"] :
      d \in {ShortDetail, LongDetail} }
  \cup { [exc |-> "APIStatusError", detail |-> ShortDetail, status_code |-> c] :
           c \in {"500", "529"} }
  \cup { [exc |-> "Exception", detail |-> ShortDetail, status_code |-> "none"] }

Resp(content) == [content |-> content, usage |-> UsageObj]

FinalResponses ==
  { Resp(<<>>),
    Resp(<<MText(<<"a">>)>>),
    Resp(<<MText(<<" ">>)>>),
    Resp(<<MThinking, MText(<<"a">>), MText(<<>>), MText(<<"b", " ">>)>>),
    [content |-> <<MText(<<"a", "b">>)>>, usage |-> None] }

ToolResponses ==
  { Resp(<<MToolUse("tu1", "fel", Dict([xml_path |-> OkPath]))>>),
    Resp(<<MText(<<"a">>), MToolUse("tu1", "ow", EmptyDict),
           MToolUse("tu2", "nope", Dict([out_path |-> OutsidePath]))>>),
    Resp(<<MToolUse("tu1", "nope", None), MToolUse("tu2", "fel", ListArgs(<<"v">>))>>),
    Resp(<<MToolUse("tu1", "fel", Dict([xml_path |-> SiblingPath]))>>) }

ToolAnswers ==
  { AnsResult(<<TextBlock(JsonText(PyDict([ok |-> TRUE]), "spaced"))>>),
    AnsError("-32000"),
    AnsSilent }

CallNames == {"fel", "ow", "nope"}
CallArgs  == {None, Dict([xml_path |-> OkPath]), Dict([out_dir |-> OutsidePath])}

\* what the two process transports do at start: both list tools and share
\* the name fel; the second lists no tool, or answers tools/list with an
\* error envelope; the first never answers
StdioListAnswers ==
  { << ListsTools(<<Descriptor("fel"), Descriptor("x")>>), ListsTools(<<Descriptor("fel")>>) >>,
    << ListsTools(<<Descriptor("fel")>>), ListsTools(<<>>) >>,
    << ListsTools(<<Descriptor("fel")>>), AnsError("-32601") >>,
    << AnsSilent, ListsTools(<<Descriptor("fel")>>) >> }
HttpListAnswers ==
  { ListsTools(<<Descriptor("ow"), Descriptor("x")>>), AnsStatus("503") }

\* the caller takes the outcome of the finished call; its frame is gone
CallerCollects ==
  /\ pc = "done"
  /\ pc' = "idle"
  /\ op' = "none"
  /\ ret' = None
  /\ BlankTurnNext
  /\ modelCalls' = 0 /\ requests' = <<>> /\ invoked' = <<>> /\ decisions' = <<>>
  /\ UNCHANGED engineVars

Next ==
  \/ \E a \in StdioListAnswers, h \in HttpListAnswers : Start(a, h)
  \/ ListTools
  \/ \E n \in CallNames, args \in CallArgs, a \in ToolAnswers : CallTool(n, args, a)
  \/ \E h \in Histories, u \in UserTexts, n \in 0..MaxHopsBound : ChatTurnCall(h, u, n)
  \/ \E f \in ModelFailures : ModelRaises(f)
  \/ \E r \in FinalResponses : ModelFinalizes(r)
  \/ \E r \in ToolResponses : ModelRequestsTools(r)
  \/ \E a \in ToolAnswers : ExecTool(a)
  \/ EndHop
  \/ HopsExhausted
  \/ CallerCollects

Spec == Init /\ [][Next]_vars

----------------------------------------------------------------------------
(* The path sandbox on its own: isPathAllowed and sanitizeMcpArgs applied  *)
(* to one input each.  `invoked` holds the input, `ret` the outcome.       *)

PathInputs ==
  { <<"d", "/", "x", "/", "a">>,                       \* in a root
    <<"d", "/", "x">>,                                 \* a root itself
    <<"d", "/", "x", "/">>,
    <<"d", "/", "x", "2", "/", "a">>,                  \* sibling whose name extends the root's
    <<"d", "/", "x", "/", ".", ".", "/", "o", "/", "b">>,          \* .. into another root
    <<"d", "/", "x", "/", ".", ".", "/", ".", ".", "/", "e">>,     \* .. out of the roots
    <<"d", "/", "x", "/", ".", "/", "a">>,
    <<"/", "w", "/", "d", "/", "x", "/", "a">>,        \* absolute
    <<"/", "/", "w", "/", "d", "/", "x", "/", "a">>,   \* two leading slashes
    <<"/", "e">>,
    <<"/">>,
    <<>> }

RootInputs ==
  { DefaultRoots,
    << <<"/", "w", "/", "d", "/", "x">> >>,
    << <<"d", "/", "x", "/">> >>,
    << <<"/">> >>,
    << <<"/", "e", "/", ".", ".", "/", "w", "/", "d">>, <<"d", "/", "l">> >> }

ArgInputs ==
  { [kind |-> "list", items |-> <<"v">>],
    EmptyDict,
    [kind |-> "dict", map |-> [xml_path |-> <<"d", "/", "x", "/", "a">>, title |-> <<"t">>]],
    [kind |-> "dict", map |-> [xml_path |-> <<"/", "e">>,
                               out_dir  |-> <<"d", "/", "x", "2", "/", "a">>]],
    [kind |-> "dict", map |-> [logo_path |-> <<>>, out_path |-> <<"/", "e">>, n |-> <<"1">>]],
    [kind |-> "dict", map |-> [dir_xml |-> <<"d", "/", "x", "2", "/", "a">>,
                               logo_path |-> <<"d", "/", "l">>]],
    [kind |-> "dict", map |-> [path |-> <<"/", "e">>]] }

PathInit ==
  /\ StdioInit
  /\ routerDebug = TRUE
  /\ toolsCatalog = <<>> /\ toolIndex = <<>> /\ toolsCache = <<>>
  /\ op = "none" /\ ret = None /\ pc = "idle"
  /\ BlankTurn
  /\ modelCalls = 0 /\ requests = <<>> /\ decisions = <<>>
  /\ \E p \in PathInputs, r \in RootInputs, a \in ArgInputs :
       invoked = <<[pathStr |-> p, allowedRoots |-> r, args |-> a]>>

IsPathAllowedCall ==
  /\ pc = "idle"
  /\ ret' = [ret |-> isPathAllowed(invoked[1].pathStr, invoked[1].allowedRoots)]
  /\ op' = "isPathAllowed"
  /\ pc' = "done"
  /\ UNCHANGED <<engineVars, turnVars, ghostVars>>

SanitizeCall ==
  /\ pc = "idle"
  /\ ret' = sanitizeMcpArgs(invoked[1].args, invoked[1].allowedRoots)
  /\ op' = "sanitizeMcpArgs"
  /\ pc' = "done"
  /\ UNCHANGED <<engineVars, turnVars, ghostVars>>

PathNext == IsPathAllowedCall \/ SanitizeCall

PathSpec == PathInit /\ [][PathNext]_vars

----------------------------------------------------------------------------
(* The path of one tool result through the invoker: parseTextBlock on the  *)
(* provider's envelope, json.dumps for the tool_result block, and the      *)
(* decoding of that block's text.  `invoked` holds the envelope, `ret` the *)
(* value parseTextBlock returned, `resultsForModel` the block, and         *)
(* `messages` what the block's text decodes to.                            *)

PyInt(n)  == [py |-> "int", n |-> n]
PyList(l) == [py |-> "list", l |-> l]
PyNone    == [py |-> "NoneType"]

Layouts == {"canonical", "spaced", "indented"}

\* structured values a tool writes as JSON: objects, a string, a string that
\* holds JSON text itself, a number, an array, null
ParseValues ==
  { PyDict([ok |-> TRUE]),
    PyDict(<<>>),
    PyDict([ok |-> FALSE, error |-> PyStr(PlainText(<<"x">>))]),
    PyStr(PlainText(<<"a">>)),
    PyStr(JsonText(PyInt(1), "canonical")),
    PyInt(1),
    PyList(<<PyInt(1), PyDict([ok |-> TRUE])>>),
    PyNone }

\* texts json.loads rejects: empty, prose, truncated JSON, padded prose
ParsePlain ==
  { EmptyText, PlainText(<<"a">>), PlainText(<<"{", "a">>), PlainText(<<" ", "a", " ">>) }

ParseTexts == {JsonText(v, l) : v \in ParseValues, l \in Layouts} \cup ParsePlain

Envelope(content) == [jsonrpc |-> "2.0", result |-> [content |-> content]]

ParseEnvelopes ==
  {Envelope(<<TextBlock(t)>>) : t \in ParseTexts}
    \cup {Envelope(<<TextBlock(t), TextBlock(PlainText(<<"z">>))>>) : t \in ParseTexts}
    \cup { Envelope(<<>>),
           Envelope(<<ImageBlock, TextBlock(JsonText(PyInt(1), "canonical"))>>),
           [jsonrpc |-> "2.0", error |-> [code |-> "-32000", message |-> "tool failed"]] }

ParseInit ==
  /\ StdioInit
  /\ routerDebug = TRUE
  /\ toolsCatalog = <<>> /\ toolIndex = <<>> /\ toolsCache = <<>>
  /\ op = "none" /\ ret = None /\ pc = "idle"
  /\ BlankTurn
  /\ modelCalls = 0 /\ requests = <<>> /\ decisions = <<>>
  /\ \E e \in ParseEnvelopes : invoked = <<[rawResp |-> e]>>

\* parsed = parseTextBlock(rawResp)
ParseCall ==
  /\ pc = "idle"
  /\ ret' = [ret |-> parseTextBlock(invoked[1].rawResp), safeArgs |-> EmptyDict]
  /\ op' = "parseTextBlock"
  /\ pc' = "parsed"
  /\ UNCHANGED <<engineVars, turnVars, ghostVars>>

\* resultsForModel.append({... "text": json.dumps(parsed, ensure_ascii=False)})
SerializeCall ==
  /\ pc = "parsed"
  /\ resultsForModel' = Append(resultsForModel, ToolResultBlock("tu1", ret))
  /\ pc' = "dumped"
  /\ UNCHANGED <<engineVars, op, ret, history, maxHops, hop, tools, messages, trace,
                 toolCalls, blocks, toolUses, tuIdx, ghostVars>>

\* the reader of the tool_result block decodes its text
DecodeCall ==
  /\ pc = "dumped"
  /\ messages' = <<json_loads(resultsForModel[1].content[1].text)>>
  /\ pc' = "done"
  /\ UNCHANGED <<engineVars, op, ret, history, maxHops, hop, tools, trace, toolCalls,
                 blocks, toolUses, tuIdx, resultsForModel, ghostVars>>

ParseNext == ParseCall \/ SerializeCall \/ DecodeCall

ParseSpec == ParseInit /\ [][ParseNext]_vars

----------------------------------------------------------------------------
(* One McpHttpClient called several times.  `invoked` records every call   *)
(* with its outcome and `requests` every POST, tagged with the number of   *)
(* the call that sent it; neither is reset between calls.                  *)

MaxHttpCalls == 3

\* what the service answers to tools/list: a catalog, another catalog, a
\* result object with no member, a failure status, a JSON-RPC error
HttpListSpecAnswers ==
  { ListsTools(<<Descriptor("ow")>>),
    ListsTools(<<Descriptor("ow"), Descriptor("x")>>),
    [kind |-> "result", result |-> <<>>],
    AnsStatus("503"),
    AnsError("-32603") }

HttpCallSpecAnswers ==
  { AnsResult(<<TextBlock(JsonText(PyDict([ok |-> TRUE]), "spaced"))>>), AnsStatus("503") }

\* responses to a bare rpc(): success, JSON-RPC error, both fields in one
\* body, and failure statuses whose body holds an error or a result
HttpRpcSpecAnswers ==
  { AnsHttp("200", [jsonrpc |-> "2.0", result |-> [ok |-> TRUE]]),
    AnsHttp("200", [jsonrpc |-> "2.0", error |-> [code |-> "-32000", message |-> "tool failed"]]),
    AnsHttp("200", [jsonrpc |-> "2.0", result |-> [ok |-> TRUE],
                    error |-> [code |-> "-32000", message |-> "tool failed"]]),
    AnsHttp("500", [jsonrpc |-> "2.0", error |-> [code |-> "-32603", message |-> "internal"]]),
    AnsHttp("404", [jsonrpc |-> "2.0", result |-> [ok |-> TRUE]]),
    AnsSilent }

HttpInit ==
  /\ StdioInit
  /\ routerDebug = TRUE
  /\ toolsCatalog = <<>> /\ toolIndex = <<>> /\ toolsCache = <<>>
  /\ op = "none" /\ ret = None /\ pc = "idle"
  /\ BlankTurn
  /\ modelCalls = 0 /\ requests = <<>> /\ decisions = <<>> /\ invoked = <<>>

\* the n-th call of the client ends with `out`, having sent `sent`
HttpCallEnds(name, out, sent) ==
  /\ Len(invoked) < MaxHttpCalls
  /\ op' = name
  /\ ret' = out
  /\ invoked' = Append(invoked, [op |-> name, out |-> out])
  /\ requests' = requests \o SentBy(Len(invoked) + 1, sent)
  /\ UNCHANGED <<routerDebug, toolsCatalog, toolIndex, stdioVars, pc, turnVars, modelCalls,
                 decisions>>

\* McpHttpClient.listTools()
HttpListToolsCall(answer) ==
  LET r == HttpListTools(toolsCache, answer) IN
  /\ toolsCache' = IF Raised(r) THEN toolsCache ELSE r.cache
  /\ HttpCallEnds("listTools",
                  IF Raised(r) THEN r ELSE [ret |-> r.ret],
                  IF toolsCache # <<>> THEN <<>>
                  ELSE <<ToolsListRequest(httpClient, answer)>>)

\* McpHttpClient.callTool(name, args)
HttpCallToolCall(answer) ==
  /\ HttpCallEnds("callTool", HttpCallTool("ow", EmptyDict, answer),
                  <<ToolsCallRequest(httpClient, "ow", EmptyDict, answer)>>)
  /\ UNCHANGED toolsCache

\* McpHttpClient.start(): one initialize request, its result dropped
HttpStartCall(answer) ==
  LET r == HttpRpc(answer) IN
  /\ HttpCallEnds("start", IF Raised(r) THEN r ELSE [ret |-> None],
                  <<InitializeRequest(httpClient, answer)>>)
  /\ UNCHANGED toolsCache

\* McpHttpClient.rpc(method, params)
HttpRpcCall(answer) ==
  /\ HttpCallEnds("rpc", HttpRpc(answer),
                  <<[to |-> httpClient, method |-> "ping", name |-> "", arguments |-> None,
                     answer |-> answer]>>)
  /\ UNCHANGED toolsCache

\* McpHttpClient.stop(): pass
HttpStopCall ==
  /\ HttpCallEnds("stop", [ret |-> None], <<>>)
  /\ UNCHANGED toolsCache

HttpNext ==
  \/ \E a \in HttpListSpecAnswers : HttpListToolsCall(a)
  \/ \E a \in HttpCallSpecAnswers : HttpCallToolCall(a)
  \/ \E a \in {Initialized, AnsStatus("503")} : HttpStartCall(a)
  \/ \E a \in HttpRpcSpecAnswers : HttpRpcCall(a)
  \/ HttpStopCall

HttpSpec == HttpInit /\ [][HttpNext]_vars

----------------------------------------------------------------------------
(* One McpStdioClient, its provider processes and its calling threads.     *)
(* `requests` records every request written to a process's stdin and       *)
(* `invoked` every id nextId handed out, in the order in which it did;     *)
(* neither is reset between calls.                                         *)

\* calls of nextId, processes spawned, lines waiting in outQ
MaxRequests == 3
MaxProcs == 2
MaxQueue == 1

\* lines a provider writes to stdout
BlankLine         == PlainText(<<" ">>)
DiagnosticLine    == PlainText(<<"l", "o", "g">>)
NumberLine        == JsonText(PyInt(5), "canonical")
NotificationLine  == JsonText(PyDict([jsonrpc |-> "2.0", method |-> "log"]), "canonical")
ResponseLine(k)   == JsonText(PyDict([jsonrpc |-> "2.0", id |-> k, result |-> <<>>]), "canonical")

\* the ids of the requests written to process p so far
WrittenTo(p) == {requests[i].req.id : i \in {j \in 1..Len(requests) : requests[j].req.proc = p}}

\* what process p can write: diagnostics, and answers to requests it got
LinesOf(p) ==
  {BlankLine, DiagnosticLine, NumberLine, NotificationLine}
    \cup {ResponseLine(k) : k \in WrittenTo(p)}

\* line.strip() == ""
IsBlank(line) == line.t = "plain" /\ Strip(line.s) = <<>>

\* mutant: any JSON object that carries an id is taken as the answer
IdMatchesAny(data, id) == "id" \in DOMAIN data.d

\* data.get("id") == payload.get("id")
IdMatches(data, id) == "id" \in DOMAIN data.d /\ data.d.id = id

\* one iteration of rpc's loop on a dequeued line: "skip" (continue),
\* "return" data, or "raise"
RpcLine(line, id) ==
  IF IsBlank(line) THEN [kind |-> "skip"]
  ELSE LET r == json_loads(line) IN
       IF Raised(r) THEN [kind |-> "skip"]
       ELSE IF r.ret.py # "dict"
            THEN [kind |-> "raise",
                  out |-> [exc |-> "AttributeError", msg |-> <<"object has no attribute 'get'">>]]
            ELSE IF IdMatches(r.ret, id) THEN [kind |-> "return", out |-> [ret |-> r.ret]]
                 ELSE [kind |-> "skip"]

\* poll() is None: the process has not exited
Alive(p) == procs[p] \in {"running", "asked"}

\* mutant: stop() calls terminate() with no test of self.proc and no try
StopUnguarded(pr, ps) ==
  IF pr = 0 THEN [out |-> [exc |-> "AttributeError", msg |-> <<"NoneType">>], procs |-> ps]
  ELSE IF ps[pr] = "exited"
       THEN [out |-> [exc |-> "ProcessLookupError", msg |-> <<"no such process">>], procs |-> ps]
       ELSE [out |-> [ret |-> None], procs |-> [ps EXCEPT ![pr] = "asked"]]

\* stop(): terminate the current process when there is one that has not
\* exited; what terminate() raises is swallowed
StopOutcome(pr, ps) ==
  IF pr # 0 /\ ps[pr] \in {"running", "asked"}
  THEN [out |-> [ret |-> None], procs |-> [ps EXCEPT ![pr] = "asked"]]
  ELSE [out |-> [ret |-> None], procs |-> ps]

\* thread c goes on as `rec` says
Goes(c, rec) == thr' = [thr EXCEPT ![c] = rec]

\* thread c's call ends with `out`
Ends(c, out) == Goes(c, [thr[c] EXCEPT !.pc = "done", !.out = out])

notClient == <<routerDebug, toolsCatalog, toolIndex, toolsCache, op, ret, pc, turnVars,
               modelCalls, decisions, providerVars>>

\* start(): Popen and the pump thread; then the payload of initialize is
\* built.  Popen raises when the command cannot be run.
CallStart(c, spawned) ==
  /\ thr[c].pc = "idle"
  /\ Len(procs) < MaxProcs /\ _id < MaxRequests
  /\ IF spawned
     THEN /\ procs' = Append(procs, "running")
          /\ proc' = Len(procs) + 1
          /\ Goes(c, [IdleThread EXCEPT !.pc = "nextId", !.op = "initialize"])
     ELSE /\ Goes(c, [IdleThread EXCEPT !.pc = "done", !.op = "initialize",
                        !.out = [exc |-> "FileNotFoundError", msg |-> <<"No such file">>]])
          /\ UNCHANGED <<proc, procs>>
  /\ UNCHANGED <<outQ, _id, _lock, requests, invoked, notClient>>

\* listTools() / callTool(): the payload is built first
CallRequest(c, method) ==
  /\ thr[c].pc = "idle"
  /\ _id < MaxRequests
  /\ Goes(c, [IdleThread EXCEPT !.pc = "nextId", !.op = method])
  /\ UNCHANGED <<proc, procs, outQ, _id, _lock, requests, invoked, notClient>>

\* stop()
CallStop(c) ==
  /\ thr[c].pc = "idle"
  /\ LET s == StopOutcome(proc, procs) IN
     /\ procs' = s.procs
     /\ Goes(c, [IdleThread EXCEPT !.pc = "done", !.op = "stop", !.out = s.out])
  /\ UNCHANGED <<proc, outQ, _id, _lock, requests, invoked, notClient>>

\* mutant: nextId takes no lock
LockFreeForAll(c) == TRUE

\* with self._lock: entered only while no thread holds the lock
LockFree(c) == _lock = 0

\* nextId, first half: enter the lock and read self._id
NextIdRead(c) ==
  /\ thr[c].pc = "nextId"
  /\ LockFree(c)
  /\ _lock' = c
  /\ Goes(c, [thr[c] EXCEPT !.pc = "nextId2", !.tmp = _id])
  /\ UNCHANGED <<proc, procs, outQ, _id, requests, invoked, notClient>>

\* nextId, second half: write self._id, return it, leave the lock
NextIdWrite(c) ==
  /\ thr[c].pc = "nextId2"
  /\ _id' = thr[c].tmp + 1
  /\ _lock' = IF _lock = c THEN 0 ELSE _lock
  /\ Goes(c, [thr[c] EXCEPT !.pc = "send", !.id = thr[c].tmp + 1])
  /\ invoked' = Append(invoked, thr[c].tmp + 1)
  /\ UNCHANGED <<proc, procs, outQ, requests, notClient>>

\* rpc, up to the loop: the assert, then write and flush to stdin
RpcSend(c) ==
  /\ thr[c].pc = "send"
  /\ IF proc = 0
     THEN /\ Ends(c, [exc |-> "AssertionError", msg |-> <<>>])
          /\ UNCHANGED requests
     ELSE IF ~Alive(proc)
     THEN /\ Ends(c, [exc |-> "BrokenPipeError", msg |-> <<"Broken pipe">>])
          /\ UNCHANGED requests
     ELSE /\ requests' = Append(requests,
                 [call |-> c, req |-> [proc |-> proc, id |-> thr[c].id]])
          /\ Goes(c, [thr[c] EXCEPT !.pc = "wait"])
  /\ UNCHANGED <<proc, procs, outQ, _id, _lock, invoked, notClient>>

\* the line is a JSON object that carries an id other than `id`
OtherResponse(line, id) ==
  /\ line.t = "json" /\ line.v.py = "dict"
  /\ "id" \in DOMAIN line.v.d /\ line.v.d.id # id

\* thread c is inside rpc's loop: at the test of the deadline ("wait") or
\* blocked in outQ.get ("get")
InLoop(c) == thr[c].pc \in {"wait", "get"}

\* rpc, one iteration of the loop that dequeues a line: the deadline test
\* passes and outQ.get returns at once, or a blocked outQ.get returns
RpcGet(c) ==
  /\ \/ thr[c].pc = "wait" /\ ~thr[c].expired
     \/ thr[c].pc = "get"
  /\ outQ # <<>>
  /\ outQ' = Tail(outQ)
  /\ LET r == RpcLine(Head(outQ), thr[c].id) IN
     IF r.kind = "skip"
     THEN Goes(c, [thr[c] EXCEPT !.pc = "wait",
                                 !.stale = @ \/ OtherResponse(Head(outQ), thr[c].id)])
     ELSE Ends(c, r.out)
  /\ UNCHANGED <<proc, procs, _id, _lock, requests, invoked, notClient>>

\* rpc: the deadline test passes and outQ.get blocks on the empty queue
RpcBlocks(c) ==
  /\ thr[c].pc = "wait" /\ ~thr[c].expired
  /\ outQ = <<>>
  /\ Goes(c, [thr[c] EXCEPT !.pc = "get"])
  /\ UNCHANGED <<proc, procs, outQ, _id, _lock, requests, invoked, notClient>>

\* rpc: outQ.get(timeout=0.5) raises queue.Empty; continue
RpcEmpty(c) ==
  /\ thr[c].pc = "get"
  /\ outQ = <<>>
  /\ Goes(c, [thr[c] EXCEPT !.pc = "wait"])
  /\ UNCHANGED <<proc, procs, outQ, _id, _lock, requests, invoked, notClient>>

\* the deadline of thread c's rpc passes
DeadlinePasses(c) ==
  /\ InLoop(c) /\ ~thr[c].expired
  /\ Goes(c, [thr[c] EXCEPT !.expired = TRUE])
  /\ UNCHANGED <<proc, procs, outQ, _id, _lock, requests, invoked, notClient>>

\* rpc, after the loop
RpcTimeout(c) ==
  /\ thr[c].pc = "wait" /\ thr[c].expired
  /\ Ends(c, [exc |-> "TimeoutError", msg |-> <<"MCP server did not respond on time.">>])
  /\ UNCHANGED <<proc, procs, outQ, _id, _lock, requests, invoked, notClient>>

\* the caller takes the outcome
ThreadCollects(c) ==
  /\ thr[c].pc = "done"
  /\ Goes(c, IdleThread)
  /\ UNCHANGED <<proc, procs, outQ, _id, _lock, requests, invoked, notClient>>

\* the line is the response to the request with this id
IsResponseTo(line, id) ==
  /\ line.t = "json" /\ line.v.py = "dict"
  /\ "id" \in DOMAIN line.v.d /\ line.v.d.id = id

\* pumpStdout: a line process p wrote is enqueued
PumpStdout(p, line) ==
  /\ Alive(p)
  /\ Len(outQ) < MaxQueue
  /\ outQ' = Append(outQ, line)
  /\ thr' = [c \in Threads |->
              IF /\ thr[c].pc \in {"wait", "get", "done"} /\ ~thr[c].expired
                 /\ IsResponseTo(line, thr[c].id)
              THEN [thr[c] EXCEPT !.answered = TRUE] ELSE thr[c]]
  /\ UNCHANGED <<proc, procs, _id, _lock, requests, invoked, notClient>>

\* process p exits, on its own or after terminate()
ProcessExits(p) ==
  /\ Alive(p)
  /\ procs' = [procs EXCEPT ![p] = "exited"]
  /\ UNCHANGED <<proc, outQ, _id, _lock, thr, requests, invoked, notClient>>

ClientInit ==
  /\ StdioInit
  /\ routerDebug = TRUE
  /\ toolsCatalog = <<>> /\ toolIndex = <<>> /\ toolsCache = <<>>
  /\ op = "none" /\ ret = None /\ pc = "idle"
  /\ BlankTurn
  /\ modelCalls = 0 /\ requests = <<>> /\ decisions = <<>> /\ invoked = <<>>

\* what thread c can do
ThreadNext(c) ==
  \/ \E spawned \in BOOLEAN : CallStart(c, spawned)
  \/ \E m \in {"tools/list", "tools/call"} : CallRequest(c, m)
  \/ CallStop(c)
  \/ NextIdRead(c)
  \/ NextIdWrite(c)
  \/ RpcSend(c)
  \/ RpcGet(c)
  \/ RpcBlocks(c)
  \/ RpcEmpty(c)
  \/ DeadlinePasses(c)
  \/ RpcTimeout(c)
  \/ ThreadCollects(c)

ProviderNext ==
  \/ \E p \in 1..Len(procs) : \E line \in LinesOf(p) : PumpStdout(p, line)
  \/ \E p \in 1..Len(procs) : ProcessExits(p)

\* one caller at a time, as the CLI uses the client
ClientNext == ThreadNext(1) \/ ProviderNext

ClientSpec == ClientInit /\ [][ClientNext]_vars

\* the ids of the requests whose rpc is waiting
Pending == {thr[c].id : c \in {t \in Threads : InLoop(t)}}

\* several threads call callTool at once on the one process thread 1
\* started; the provider answers the requests that are waiting
ThreadsNext ==
  \/ procs = <<>> /\ CallStart(1, TRUE)
  \/ \E c \in Threads :
       \/ CallRequest(c, "tools/call")
       \/ NextIdRead(c)
       \/ NextIdWrite(c)
       \/ RpcSend(c)
       \/ RpcGet(c)
       \/ RpcBlocks(c)
       \/ RpcEmpty(c)
       \/ DeadlinePasses(c)
       \/ RpcTimeout(c)
       \/ ThreadCollects(c)
  \/ \E p \in 1..Len(procs) :
       \E k \in WrittenTo(p) \cap Pending : PumpStdout(p, ResponseLine(k))

ThreadsSpec == ClientInit /\ [][ThreadsNext]_vars

----------------------------------------------------------------------------
(* The stdio providers: main() of fel_mcp_server and ow_mcp_server.  The   *)
(* loop reads one line of stdin per iteration.  `requests` logs the lines  *)
(* read, `invoked` the response lines written, each with the number of the *)
(* input line whose iteration wrote it; pc is "done" after end of input.   *)

\* input lines read in one run
MaxLines == 3

\* {"jsonrpc": "2.0", "id": id, "method": method}
RequestIn(id, method) ==
  JsonText(PyDict([jsonrpc |-> "2.0", id |-> PyInt(id), method |-> method]), "canonical")

\* a tools/call request; `tool` tells what callTool does with it
ToolsCallIn(id, tool) ==
  JsonText(PyDict([jsonrpc |-> "2.0", id |-> PyInt(id), method |-> "tools/call",
                   params |-> PyDict([name |-> tool])]), "canonical")

\* a tools/call request whose params is not an object
BadParamsIn(id) ==
  JsonText(PyDict([jsonrpc |-> "2.0", id |-> PyInt(id), method |-> "tools/call",
                   params |-> PyInt(5)]), "canonical")

\* a notification, and a message whose id is null
NotificationIn == JsonText(PyDict([jsonrpc |-> "2.0", method |-> "notifications/initialized"]),
                           "canonical")
NullIdIn == JsonText(PyDict([jsonrpc |-> "2.0", id |-> PyNone, method |-> "tools/list"]),
                     "canonical")

InputIds == {1, 2}

InputLines ==
  {RequestIn(i, m) : i \in InputIds, m \in {"initialize", "tools/list", "resources/list"}}
  \cup {ToolsCallIn(i, t) : i \in InputIds, t \in {"works", "raises"}}
  \cup {BadParamsIn(1), NotificationIn, NullIdIn, NumberLine, DiagnosticLine}

\* sendResponse(msgId, result) / sendResponse(msgId, error=...)
ResultLine(msgId, result) == [id |-> msgId, kind |-> "result", result |-> result]
ErrorLine(msgId, code)    == [id |-> msgId, kind |-> "error", code |-> code]

\* req.get("id", None)
IdOf(d) == IF "id" \in DOMAIN d THEN d.id ELSE PyNone

\* the handler `except Exception` of main(): it reads the local req, which
\* holds what the last successful json.loads returned
MainExcept(r) ==
  IF r = Unbound THEN <<>>
  ELSE IF r.py # "dict" THEN <<>>
  ELSE IF IdOf(r.d) = PyNone THEN <<>>
  ELSE <<ErrorLine(IdOf(r.d), -32000)>>

\* the tools/call branch: the response lines written
MainToolsCall(srv, v) ==
  LET d      == v.d
      params == IF "params" \in DOMAIN d THEN d.params ELSE PyDict(<<>>)
  IN  IF params.py # "dict" THEN MainExcept(v)
      ELSE IF params.d.name = "works" THEN <<ResultLine(d.id, "content")>>
      ELSE IF srv = "ow" THEN <<ErrorLine(d.id, -32001)>>
      ELSE MainExcept(v)

\* one iteration of `for line in sys.stdin`: [req |-> the local after it,
\* out |-> the response lines written]
MainLine(srv, r, line) ==
  IF line.t # "json" THEN [req |-> r, out |-> MainExcept(r)]
  ELSE LET v == line.v IN
       IF v.py # "dict" THEN [req |-> v, out |-> MainExcept(v)]
       ELSE LET d      == v.d
                method == IF "method" \in DOMAIN d THEN d.method ELSE "None"
                msgId  == IdOf(d)
            IN  [req |-> v,
                 out |-> IF msgId = PyNone THEN <<>>
                         ELSE IF method = "initialize" THEN <<ResultLine(msgId, "capabilities")>>
                         ELSE IF method = "tools/list" THEN <<ResultLine(msgId, "tools")>>
                         ELSE IF method = "tools/call" THEN MainToolsCall(srv, v)
                         ELSE <<ErrorLine(msgId, -32601)>>]

ProviderInit ==
  /\ proc = 0 /\ procs = <<>> /\ outQ = <<>> /\ _id = 0 /\ _lock = 0
  /\ thr = [c \in Threads |-> IdleThread]
  /\ server \in {"fel", "ow"} /\ mainReq = Unbound
  /\ routerDebug = TRUE
  /\ toolsCatalog = <<>> /\ toolIndex = <<>> /\ toolsCache = <<>>
  /\ op = "main" /\ ret = None /\ pc = "idle"
  /\ BlankTurn
  /\ modelCalls = 0 /\ requests = <<>> /\ decisions = <<>> /\ invoked = <<>>

notProvider == <<routerDebug, toolsCatalog, toolIndex, toolsCache, proc, procs, outQ, _id,
                 _lock, thr, server, op, ret, turnVars, modelCalls, decisions>>

\* main() reads a line and handles it
MainReads(line) ==
  /\ pc = "idle"
  /\ Len(requests) < MaxLines
  /\ LET m == MainLine(server, mainReq, line) IN
     /\ mainReq' = m.req
     /\ requests' = Append(requests, line)
     /\ invoked' = invoked \o [j \in 1..Len(m.out) |->
                                 [line |-> Len(requests) + 1, resp |-> m.out[j]]]
  /\ UNCHANGED <<pc, notProvider>>

\* end of input: the loop ends and main() returns
StdinCloses ==
  /\ pc = "idle"
  /\ pc' = "done"
  /\ UNCHANGED <<mainReq, requests, invoked, notProvider>>

ProviderMainNext ==
  \/ \E line \in InputLines : MainReads(line)
  \/ StdinCloses

ProviderSpec == ProviderInit /\ [][ProviderMainNext]_vars

----------------------------------------------------------------------------
(* apps/cli McpStdioClient, the stand-alone process client of the CLI,     *)
(* called by one thread.  outQ is self.outQueue and holds the objects the  *)
(* reader thread parsed, _id is self.msgId.                                *)

\* readerLoop on one line of the process's stdout: the objects enqueued
ReaderObjs(line) ==
  IF IsBlank(line) THEN <<>>
  ELSE LET r == json_loads(line) IN
       IF Raised(r) THEN <<PyDict([jsonrpc |-> "2.0", error |-> [code |-> -32700]])>>
       ELSE <<r.ret>>

\* isinstance(resp, dict) and resp.get("id") == self.msgId
CliMatches(resp, id) == resp.py = "dict" /\ IdMatches(resp, id)

\* start(): nothing when a process is held; else Popen, the reader thread
\* and the initialize handshake
CliStart ==
  /\ thr[1].pc = "idle"
  /\ IF proc # 0
     THEN /\ Goes(1, [IdleThread EXCEPT !.pc = "done", !.op = "start", !.out = [ret |-> None]])
          /\ UNCHANGED <<proc, procs>>
     ELSE /\ Len(procs) < MaxProcs /\ _id < MaxRequests
          /\ procs' = Append(procs, "running")
          /\ proc' = Len(procs) + 1
          /\ Goes(1, [IdleThread EXCEPT !.pc = "send", !.op = "initialize"])
  /\ UNCHANGED <<outQ, _id, _lock, requests, invoked, notClient>>

\* listTools() / callTool(): sendRequest is entered
CliCall(method) ==
  /\ thr[1].pc = "idle"
  /\ _id < MaxRequests
  /\ Goes(1, [IdleThread EXCEPT !.pc = "send", !.op = method])
  /\ UNCHANGED <<proc, procs, outQ, _id, _lock, requests, invoked, notClient>>

\* sendRequest up to the flush: the test of self.proc, the new msgId, the
\* write to the process's stdin
CliSend ==
  /\ thr[1].pc = "send"
  /\ IF proc = 0
     THEN /\ Ends(1, [exc |-> "RuntimeError", msg |-> <<"MCP process not started">>])
          /\ UNCHANGED <<_id, requests>>
     ELSE /\ _id' = _id + 1
          /\ IF ~Alive(proc)
             THEN /\ Ends(1, [exc |-> "BrokenPipeError", msg |-> <<"Broken pipe">>])
                  /\ UNCHANGED requests
             ELSE /\ requests' = Append(requests,
                         [call |-> 1, req |-> [proc |-> proc, id |-> _id + 1]])
                  /\ Goes(1, [thr[1] EXCEPT !.pc = "wait", !.id = _id + 1])
  /\ UNCHANGED <<proc, procs, outQ, _lock, invoked, notClient>>

\* one iteration of `while True`: outQueue.get() returns an object
CliGet ==
  /\ thr[1].pc = "wait"
  /\ outQ # <<>>
  /\ outQ' = Tail(outQ)
  /\ IF CliMatches(Head(outQ), _id)
     THEN Ends(1, [ret |-> Head(outQ)])
     ELSE Goes(1, thr[1])
  /\ UNCHANGED <<proc, procs, _id, _lock, requests, invoked, notClient>>

\* stop(): terminate() with its failure swallowed, then self.proc = None
CliStop ==
  /\ thr[1].pc = "idle"
  /\ procs' = StopOutcome(proc, procs).procs
  /\ proc' = 0
  /\ Goes(1, [IdleThread EXCEPT !.pc = "done", !.op = "stop", !.out = [ret |-> None]])
  /\ UNCHANGED <<outQ, _id, _lock, requests, invoked, notClient>>

\* readerLoop: a line process p wrote is parsed and enqueued
CliReader(p, line) ==
  /\ Alive(p)
  /\ Len(outQ) + Len(ReaderObjs(line)) <= MaxQueue
  /\ outQ' = outQ \o ReaderObjs(line)
  /\ UNCHANGED <<proc, procs, _id, _lock, thr, requests, invoked, notClient>>

\* what the calling thread can do
CliThread ==
  \/ CliStart
  \/ \E m \in {"tools/list", "tools/call"} : CliCall(m)
  \/ CliSend
  \/ CliGet
  \/ CliStop
  \/ ThreadCollects(1)

\* what the provider processes can do
CliProvider ==
  \/ \E p \in 1..Len(procs) : \E line \in LinesOf(p) : CliReader(p, line)
  \/ \E p \in 1..Len(procs) : ProcessExits(p)

CliNext == CliThread \/ CliProvider

\* the calling thread runs whenever it can; a provider may stay silent
CliSpec == ClientInit /\ [][CliNext]_vars /\ WF_vars(CliThread)

----------------------------------------------------------------------------
(* Properties                                                              *)

TurnRunning  == pc \in {"loop", "tools"}
TurnEnded    == pc = "done" /\ op = "chatTurn"
TurnReturned == TurnEnded /\ "ret" \in DOMAIN ret
AllToolUse   == \A i \in 1..Len(decisions) : decisions[i] = "tool_use"

\* the tool_result blocks of a conversation, in order
RECURSIVE ToolResultsIn(_)
ToolResultsIn(msgs) ==
  IF msgs = <<>> THEN <<>>
  ELSE (IF "blocks" \in DOMAIN Head(msgs).content
        THEN SelectSeq(Head(msgs).content.blocks, LAMBDA b : b.type = "tool_result")
        ELSE <<>>) \o ToolResultsIn(Tail(msgs))

\* what is left of a running turn: the iterations of the hop loop not yet
\* begun, then the place inside the iteration, then the tool-use blocks
\* not yet processed
TurnRank ==
  << maxHops - hop,
     IF pc = "tools" THEN 1 ELSE 0,
     IF pc = "tools" THEN Len(toolUses) + 1 - tuIdx ELSE 0 >>

LexLess(a, b) ==
  \/ a[1] < b[1]
  \/ a[1] = b[1] /\ a[2] < b[2]
  \/ a[1] = b[1] /\ a[2] = b[2] /\ a[3] < b[3]

\* C1: for every maxHops >= 0 and every behaviour of the model backend, a
\* chatTurn makes at most maxHops calls to the model backend and returns:
\* each step of a running turn either ends the turn or strictly lowers a
\* rank that never falls below <<0, 0, 0>>, so no turn runs forever.
C1_ReturnsWithinMaxHops ==
  [][ /\ modelCalls' <= maxHops'
      /\ \A i \in 1..3 : TurnRank[i] >= 0 /\ TurnRank'[i] >= 0
      /\ TurnRunning => (pc' = "done" \/ (TurnRunning' /\ LexLess(TurnRank', TurnRank)))
    ]_vars

\* C1 witness: a turn against a backend that asked for tools on every one
\* of the maxHops calls has ended.
C1_Witness ==
  /\ TurnEnded /\ maxHops = MaxHopsBound /\ modelCalls = maxHops /\ AllToolUse

\* C2: when each of the maxHops model responses holds a tool-use block and
\* no backend call fails, chatTurn returns the placeholder "(no answer)", a
\* trace of exactly maxHops entries when diagnostics are on, and a ledger
\* with one record for every invocation made during the turn.
C2_HopExhaustion ==
  (TurnReturned /\ Len(decisions) = maxHops /\ AllToolUse) =>
    /\ ret.ret.finalText = <<"(no answer)">>
    /\ (routerDebug => Len(ret.ret.router.trace) = maxHops)
    /\ Len(ret.ret.tools.calls) = Len(invoked)
    /\ \A i \in 1..Len(invoked) : ret.ret.tools.calls[i].tool = invoked[i].name

\* C2 witness: maxHops = 3, diagnostics on, three tool-requesting hops.
C2_Witness ==
  /\ TurnReturned /\ routerDebug /\ maxHops = 3 /\ Len(decisions) = 3 /\ AllToolUse
  /\ Len(ret.ret.router.trace) = 3
  /\ Len(ret.ret.tools.calls) > 3

FirstNoTool == TurnReturned /\ decisions = <<"no_tool">>

\* the non-empty text blocks one after the other, nothing in between
RECURSIVE Concatenated(_)
Concatenated(ts) ==
  IF ts = <<>> THEN <<>> ELSE Head(ts) \o Concatenated(Tail(ts))

OrPlaceholder(s) == IF s = <<>> THEN <<"(no answer)">> ELSE s

FirstNoToolFrame ==
  /\ modelCalls = 1
  /\ requests = <<>>
  /\ (routerDebug => Len(ret.ret.router.trace) = 1)
  /\ ret.ret.tools.calls = <<>>

\* C3 as stated: when the first model response holds no tool-use block,
\* chatTurn returns after one model call and no transport request, with
\* finalText the non-empty text blocks concatenated in order (the
\* placeholder if that is empty), a trace of length 1 when diagnostics are
\* on, and an empty ledger.
C3_AsStated ==
  FirstNoTool =>
    /\ FirstNoToolFrame
    /\ ret.ret.finalText = OrPlaceholder(Concatenated(SelectNonEmpty(TextBlocksOf(blocks))))

\* C3 amended: as C3, with finalText the non-empty text blocks joined in
\* order with a newline between them and stripped of leading and trailing
\* whitespace (the placeholder if that is empty).
C3_JoinedAndStripped ==
  FirstNoTool =>
    /\ FirstNoToolFrame
    /\ ret.ret.finalText =
         OrPlaceholder(Strip(Join(SelectNonEmpty(TextBlocksOf(blocks)), <<"\n">>)))

\* C3 witness: a first response with several text blocks, one of them empty.
C3_Witness ==
  /\ FirstNoTool
  /\ Len(SelectNonEmpty(TextBlocksOf(blocks))) = 2
  /\ Len(TextBlocksOf(blocks)) = 3
  /\ ret.ret.finalText = <<"a", "\n", "b">>

OneToolThenFinal ==
  TurnReturned /\ decisions = <<"tool_use", "no_tool">> /\ Len(invoked) = 1

\* C4: when the model requests exactly one tool on hop 1 and none on hop 2,
\* chatTurn makes one tool invocation (at most one transport request), the
\* conversation holds exactly one tool_result block (appended before the
\* second model call, answering that request), there are exactly two model
\* calls, and the result is the hop-2 text with a one-record ledger.
C4_OneToolTwoHops ==
  OneToolThenFinal =>
    /\ Len(requests) <= 1
    /\ Len(ToolResultsIn(messages)) = 1
    /\ ToolResultsIn(messages)[1].tool_use_id = invoked[1].id
    /\ modelCalls = 2
    /\ ret.ret.finalText =
         OrPlaceholder(Strip(Join(SelectNonEmpty(TextBlocksOf(blocks)), <<"\n">>)))
    /\ Len(ret.ret.tools.calls) = 1
    /\ ret.ret.tools.calls[1].tool = invoked[1].name

\* C4 witness: the one tool reached its transport and hop 2 answered "a".
C4_Witness ==
  /\ OneToolThenFinal
  /\ Len(requests) = 1
  /\ "result" \in DOMAIN ret.ret.tools.calls[1]
  /\ ret.ret.finalText = <<"a">>

Apologies ==
  { <<"The request exceeded a limit.">>,
    <<"There was a problem generating the response.">> }
  \cup { <<"The model could not respond (status ", c, ").">> : c \in {"429", "500", "529"} }

\* C5: a model-backend failure on any hop ends the turn at once: the step
\* that fails is one model call (no retry) and leaves the turn ended, with
\* no transport request; the result's trace is the trace so far plus one
\* entry with decision "error"; on the first hop the ledger is empty and
\* finalText is an apology string.  Once ended, the turn does nothing more.
C5_BackendFailureEndsTurn ==
  [][ /\ (decisions' = Append(decisions, "error")) =>
           /\ pc' = "done"
           /\ modelCalls' = modelCalls + 1
           /\ requests' = requests
           /\ invoked' = invoked
           /\ "ret" \in DOMAIN ret'
           /\ Len(ret'.ret.router.trace) = Len(trace) + 1
           /\ SubSeq(ret'.ret.router.trace, 1, Len(trace)) = trace
           /\ ret'.ret.router.trace[Len(trace) + 1].decision = "error"
           /\ (modelCalls = 0 =>
                 /\ ret'.ret.tools.calls = <<>>
                 /\ ret'.ret.finalText \in Apologies)
      /\ (pc = "done" => (modelCalls' <= modelCalls /\ Len(requests') <= Len(requests)))
    ]_vars

\* C5 witness: the backend failed on the second hop, after a hop of tools.
C5_Witness ==
  /\ TurnReturned /\ decisions = <<"tool_use", "error">>
  /\ routerDebug /\ Len(ret.ret.router.trace) = 2
  /\ requests # <<>>

\* C6: chatTurn never raises: whatever state the engine is in when it is
\* called (also before start() has built the catalog), the call ends by
\* returning a result whose finalText is a final answer or an apology.
C6_NeverRaises ==
  TurnEnded => ("ret" \in DOMAIN ret /\ ret.ret.finalText # <<>>)

\* the tool-use block an ExecTool step processes
CurrentToolUse == toolUses[tuIdx]

ArgsBlocked(args) ==
  /\ args # None
  /\ IsDict(args)
  /\ \E i \in 1..Len(PathKeys) :
       /\ HasKey(args, PathKeys[i])
       /\ args.map[PathKeys[i]] # <<>>
       /\ ~isPathAllowed(args.map[PathKeys[i]], allowedRoots)

\* the transport raised instead of returning a response
TransportRaised(req) ==
  \/ req.answer.kind = "silent"
  \/ req.to.kind = "http" /\ req.answer.kind \in {"error", "status"}

\* the tool_result block and ledger record of a failure with message msg
IsErrorResult(block, record) ==
  /\ "is_error" \in DOMAIN block /\ block.is_error = TRUE
  /\ "error" \in DOMAIN record
  /\ "result" \notin DOMAIN record
  /\ Len(block.content) = 1
  /\ block.content[1].type = "text"
  /\ block.content[1].text.t = "json"
  /\ block.content[1].text.v = [py |-> "dict", d |-> [ok |-> FALSE, error |-> record.error]]

\* C7: within one hop every tool-use block is processed even if an earlier
\* one fails: an invocation that fails (unknown tool, blocked path,
\* transport exception, timeout) appends a tool_result block flagged
\* is_error that carries {ok: false, error: <message>}; the loop goes on to
\* the next tool-use block; and the hop ends only after all of them, back
\* at the head of the hop loop with the turn still running (the loop head
\* then makes the next model call if fewer than maxHops have been made).
C7_ToolFailuresDoNotEndTheHop ==
  [][ (pc = "tools") =>
        IF Len(invoked') = Len(invoked) + 1
        THEN /\ tuIdx <= Len(toolUses)
             /\ pc' = "tools" /\ tuIdx' = tuIdx + 1 /\ ret' = None
             /\ Len(resultsForModel') = Len(resultsForModel) + 1
             /\ Len(toolCalls') = Len(toolCalls) + 1
             /\ resultsForModel'[Len(resultsForModel')].tool_use_id = CurrentToolUse.id
             /\ ( ( \/ CurrentToolUse.name \notin DOMAIN toolIndex
                    \/ ArgsBlocked(CurrentToolUse.input)
                    \/ /\ Len(requests') = Len(requests) + 1
                       /\ TransportRaised(requests'[Len(requests')].req) )
                  => IsErrorResult(resultsForModel'[Len(resultsForModel')],
                                   toolCalls'[Len(toolCalls')]) )
        ELSE /\ tuIdx = Len(toolUses) + 1
             /\ Len(resultsForModel) = Len(toolUses)
             /\ pc' = "loop" /\ ret' = None
             /\ Len(messages') = Len(messages) + 3
             /\ messages'[Len(messages) + 2].content = [blocks |-> resultsForModel]
    ]_vars

\* C7 witness: in one hop the first invocation failed and the second one
\* reached its transport and succeeded.
C7_Witness ==
  /\ pc = "tools" /\ Len(resultsForModel) = 2
  /\ "is_error" \in DOMAIN resultsForModel[1]
  /\ "is_error" \notin DOMAIN resultsForModel[2]
  /\ requests # <<>>

\* C7 as stated: a hop in which an invocation failed is always followed by
\* another model call (fails when the hop is the maxHops-th one: the loop
\* has no iteration left and the turn ends by hop exhaustion).
C7_AsStated ==
  [][ ( /\ pc = "tools" /\ pc' = "loop"
        /\ \E i \in 1..Len(resultsForModel) : "is_error" \in DOMAIN resultsForModel[i] )
      => LoopContinues'
    ]_vars

\* every tool_result block of the turn so far, in the order of `invoked`
AllToolResults ==
  ToolResultsIn(messages) \o (IF pc = "tools" THEN resultsForModel ELSE <<>>)

\* C8: when the owning provider answers tools/call with a JSON-RPC error
\* envelope, the invocation is a failure whichever transport owns the
\* tool: in chatTurn the tool_result block is flagged is_error and the
\* ledger record carries `error`, and callTool raises.
C8_ErrorEnvelopeIsFailure ==
  \A i \in 1..Len(requests) :
    (requests[i].req.method = "tools/call" /\ requests[i].req.answer.kind = "error") =>
      IF op = "callTool" THEN Raised(ret)
      ELSE /\ "error" \in DOMAIN toolCalls[requests[i].call]
           /\ "is_error" \in DOMAIN AllToolResults[requests[i].call]

\* C9: for every return of chatTurn (final answer, hop exhaustion, backend
\* failure) the returned ledger holds exactly one record per invocation
\* attempted during the turn, in invocation order.
C9_LedgerComplete ==
  TurnReturned =>
    /\ Len(ret.ret.tools.calls) = Len(invoked)
    /\ \A i \in 1..Len(invoked) : ret.ret.tools.calls[i].tool = invoked[i].name

\* C10: an invocation of a name absent from the ownership map fails with
\* the unknown-tool error and sends no request to any transport, through
\* callTool and for a tool-use block of chatTurn alike.
C10_UnknownToolFails ==
  \A i \in 1..Len(invoked) :
    invoked[i].name \notin DOMAIN toolIndex =>
      /\ \A j \in 1..Len(requests) : requests[j].call # i
      /\ (op = "callTool" =>
            ret = [exc |-> "ValueError", msg |-> <<"Unknown tool", invoked[i].name>>])
      /\ (op = "chatTurn" =>
            /\ "error" \in DOMAIN toolCalls[i]
            /\ toolCalls[i].error = <<"Unknown tool", invoked[i].name>>)

\* C11: an invocation whose arguments hold, under a path-bearing key, a
\* non-empty path outside every allowed root never reaches a transport: in
\* chatTurn it yields an is_error tool_result and an error record in the
\* ledger, in callTool it raises.
C11_BlockedPathNeverSent ==
  \A i \in 1..Len(invoked) :
    (op \in {"chatTurn", "callTool"} /\ ArgsBlocked(invoked[i].input)) =>
      /\ \A j \in 1..Len(requests) : requests[j].call # i
      /\ (op = "callTool" => Raised(ret))
      /\ (op = "chatTurn" =>
            /\ "error" \in DOMAIN toolCalls[i]
            /\ "result" \notin DOMAIN toolCalls[i]
            /\ "is_error" \in DOMAIN AllToolResults[i]
            /\ AllToolResults[i].is_error = TRUE)

\* C11 witness: a turn asked for a registered tool with a path in a sibling
\* of an allowed root under xml_path; the ledger holds the error.
C11_Witness ==
  /\ op = "chatTurn" /\ Len(invoked) >= 1 /\ Len(toolCalls) >= 1
  /\ invoked[1].name \in DOMAIN toolIndex
  /\ ArgsBlocked(invoked[1].input)
  /\ "error" \in DOMAIN toolCalls[1]
  /\ toolCalls[1].error[1] = "Blocked path"

\* the configured transports in configuration order: the process
\* transports in list order, then the service transport
Transports == stdioClients \o <<httpClient>>

StartReturned == pc = "done" /\ op = "start" /\ "ret" \in DOMAIN ret

\* the tools/list request start() sent to transport k
ListRequestOf(k) ==
  requests[CHOOSE i \in 1..Len(requests) :
             requests[i].call = k /\ requests[i].req.method = "tools/list"]

\* the tools transport k declared to the start() that has just returned: a
\* process transport's answer to tools/list, the service transport's
\* answer as its cache holds it
DeclaredBy(k) ==
  IF k <= Len(stdioClients)
  THEN LET a == ListRequestOf(k).req.answer IN
       IF a.kind = "result" THEN a.result.tools ELSE <<>>
  ELSE ListedTools([result |-> toolsCache])

NamesOf(ts) == {ts[i].name : i \in 1..Len(ts)}

\* the transports that declared name n, as positions in Transports
Declaring(n) == {k \in 1..Len(Transports) : n \in NamesOf(DeclaredBy(k))}

Last(S) == CHOOSE k \in S : \A j \in S : j <= k

\* C12: after start() a name declared by several transports is owned by
\* the one that comes last in configuration order, and every tools/call
\* request for a name goes to the owner the map holds.
C12_LaterTransportWins ==
  /\ StartReturned =>
       \A k \in 1..Len(Transports) : \A n \in NamesOf(DeclaredBy(k)) :
         /\ n \in DOMAIN toolIndex
         /\ toolIndex[n] = Transports[Last(Declaring(n))]
  /\ \A i \in 1..Len(requests) :
       requests[i].req.method = "tools/call" =>
         requests[i].req.to = toolIndex[requests[i].req.name]

\* C12 witness: fel is declared by both process transports and x by the
\* first process transport and the service transport.
C12_Witness ==
  /\ StartReturned
  /\ Declaring("fel") = {1, 2} /\ toolIndex["fel"] = StdioClient(2)
  /\ Declaring("x") = {1, 3} /\ toolIndex["x"] = HttpClient

RECURSIVE SumLen(_)
SumLen(k) == IF k = 0 THEN 0 ELSE Len(DeclaredBy(k)) + SumLen(k - 1)

\* no tool name is declared by two transports
NoSharedName ==
  \A j, k \in 1..Len(Transports) :
    j # k => NamesOf(DeclaredBy(j)) \cap NamesOf(DeclaredBy(k)) = {}

\* the provider did not answer, or answered with a failure status
ProviderFailed(req) ==
  \/ req.answer.kind \in {"silent", "status"}
  \/ req.to.kind = "http" /\ req.answer.kind = "error"

\* C13: after start() the merged catalog has as many entries as the
\* transports reported tools in total, when no two of them share a name; a
\* transport that reports no tool adds nothing, and start() fails only
\* when a provider failed to answer, never because a list was empty.
C13_CatalogSizeIsSum ==
  /\ (StartReturned /\ NoSharedName) =>
       Len(toolsCatalog.result.tools) = SumLen(Len(Transports))
  /\ (pc = "done" /\ op = "start" /\ Raised(ret)) =>
       (requests # <<>> /\ ProviderFailed(requests[Len(requests)].req))

\* C13 witness: the second process transport listed no tool, the names of
\* the other two are distinct, and the catalog holds their three tools.
C13_Witness ==
  /\ StartReturned /\ NoSharedName
  /\ ListRequestOf(2).req.answer = ListsTools(<<>>)
  /\ DeclaredBy(1) # <<>> /\ DeclaredBy(3) # <<>>
  /\ Len(toolsCatalog.result.tools) = 3

\* C14: every tool name occurs at most once in the merged catalog that
\* listTools() returns, and in the tool list chatTurn sends to the model.
C14_NamesUnique ==
  /\ "result" \in DOMAIN toolsCatalog =>
       \A i, j \in 1..Len(toolsCatalog.result.tools) :
         i # j => toolsCatalog.result.tools[i].name # toolsCatalog.result.tools[j].name
  /\ \A i, j \in 1..Len(tools) : i # j => tools[i].name # tools[j].name

\* C15: no step of a chatTurn, callTool or listTools call changes the
\* merged catalog, the ownership map or any other field of the engine; a
\* chatTurn works on a new list that starts with the caller's history,
\* which it leaves as it was; and a turn starts with an empty ledger and
\* trace, so nothing of an earlier turn's tool calls is carried over.
C15_CatalogFrozenAfterStart ==
  [][ /\ (op' \in {"chatTurn", "callTool", "listTools"}) =>
           /\ toolsCatalog' = toolsCatalog
           /\ toolIndex' = toolIndex
           /\ toolsCache' = toolsCache
           /\ routerDebug' = routerDebug
      /\ (op' = "listTools" /\ pc' = "done") => ret' = [ret |-> toolsCatalog]
      /\ TurnRunning => history' = history
      /\ (pc = "idle" /\ TurnRunning') =>
           /\ toolCalls' = <<>> /\ trace' = <<>>
           /\ Len(messages') = Len(history') + 1
           /\ SubSeq(messages', 1, Len(history')) = history'
      /\ TurnReturned' => Len(ret'.ret.tools.calls) <= Len(invoked')
    ]_vars

\* C15 witness: with a published catalog, a turn that was given a history
\* invoked tools and returned.
C15_Witness ==
  /\ TurnReturned /\ "result" \in DOMAIN toolsCatalog
  /\ history # <<>> /\ invoked # <<>>
  /\ Len(messages) > Len(history) + 1
  /\ SubSeq(messages, 1, Len(history)) = history

\* path ap is root base or lies beneath it, component by component
Beneath(ap, base) ==
  /\ ap.slashes = base.slashes
  /\ Len(base.comps) <= Len(ap.comps)
  /\ SubSeq(ap.comps, 1, Len(base.comps)) = base.comps

Contained(pathStr, roots) ==
  \E i \in 1..Len(roots) : Beneath(AbsParts(pathStr), AbsParts(roots[i]))

\* C16: isPathAllowed(path, roots) is true exactly when the absolute
\* normalized path is some normalized root or lies beneath one on a
\* component boundary.
C16_ExactlyContainment ==
  (pc = "done" /\ op = "isPathAllowed") =>
    (ret.ret <=> Contained(invoked[1].pathStr, invoked[1].allowedRoots))

\* key number i of the fixed list is present in args with a non-empty
\* value that roots do not allow
Violates(args, i, roots) ==
  /\ PathKeys[i] \in DOMAIN args.map
  /\ args.map[PathKeys[i]] # <<>>
  /\ ~isPathAllowed(args.map[PathKeys[i]], roots)

\* C17: sanitizeMcpArgs raises the blocked-path error carrying the value
\* of the first key, in the fixed key order, whose non-empty value is not
\* allowed; with no such key it returns the arguments unchanged (non-path
\* keys, empty and absent path keys included); an input that is not a
\* mapping gives the empty argument set.
C17_SanitizeFirstViolation ==
  (pc = "done" /\ op = "sanitizeMcpArgs") =>
    LET args  == invoked[1].args
        roots == invoked[1].allowedRoots
    IN  IF args.kind # "dict" THEN ret = [ret |-> EmptyDict]
        ELSE IF \A i \in 1..Len(PathKeys) : ~Violates(args, i, roots)
             THEN ret = [ret |-> args]
             ELSE \E i \in 1..Len(PathKeys) :
                    /\ Violates(args, i, roots)
                    /\ \A j \in 1..(i - 1) : ~Violates(args, j, roots)
                    /\ ret = [exc |-> "ValueError",
                              msg |-> <<"Blocked path", args.map[PathKeys[i]]>>]

\* C17 witness: two keys violate and the error carries the value of the
\* one that comes first in the key order (xml_path before out_dir).
C17_Witness ==
  /\ pc = "done" /\ op = "sanitizeMcpArgs"
  /\ invoked[1].args.kind = "dict"
  /\ {"xml_path", "out_dir"} \subseteq DOMAIN invoked[1].args.map
  /\ Violates(invoked[1].args, 1, invoked[1].allowedRoots)
  /\ Violates(invoked[1].args, 5, invoked[1].allowedRoots)
  /\ ret = [exc |-> "ValueError", msg |-> <<"Blocked path", <<"/", "e">>>>]

\* C18: the finalText of every result chatTurn returns is a non-empty
\* string, also after stripping: a final response without text, hop
\* exhaustion and a backend failure give a placeholder or an apology.
C18_FinalTextNonEmpty ==
  TurnReturned =>
    /\ ret.ret.finalText # <<>>
    /\ Strip(ret.ret.finalText) = ret.ret.finalText
    /\ ( (decisions # <<>> /\ decisions[Len(decisions)] = "no_tool"
           /\ Strip(Join(SelectNonEmpty(TextBlocksOf(blocks)), <<"\n">>)) = <<>>)
         => ret.ret.finalText = <<"(no answer)">> )

\* C18 witness: the final response held only a whitespace text block.
C18_Witness ==
  /\ TurnReturned /\ decisions # <<>> /\ decisions[Len(decisions)] = "no_tool"
  /\ TextBlocksOf(blocks) = << <<" ">> >>
  /\ ret.ret.finalText = <<"(no answer)">>

\* the step is a model call that failed
BackendFailed == decisions' = Append(decisions, "error")

\* the error entry a failure f leaves in the trace
ErrorEntry(f) ==
  [decision |-> "error", error |-> ErrorTag(f), detail |-> Truncate(f.detail, DetailLimit)]

\* no character of the detail occurs in the text
Hides(text, detail) ==
  \A i \in 1..Len(text), j \in 1..Len(detail) : text[i] # detail[j]

\* C19 as stated: the finalText after a backend failure is the same for
\* every failure of that kind, whatever else the error holds.
C19_AsStated ==
  [][ BackendFailed =>
        \E f \in ModelFailures :
          /\ trace'[Len(trace')] = ErrorEntry(f)
          /\ \A g \in ModelFailures :
               g.exc = f.exc => ret'.ret.finalText = Friendly(g)
    ]_vars

\* C19: the finalText after a backend failure is a message fixed by the
\* kind of the failure and, for a status error, its status code: it is the
\* same for two failures that differ only in their detail, and holds none
\* of the detail; the detail is in the last trace entry only, cut to at
\* most 200 characters and tagged rate_limit, api_status or unknown.
C19_ApologyHidesDetail ==
  [][ BackendFailed =>
        \E f \in ModelFailures :
          /\ trace'[Len(trace')] = ErrorEntry(f)
          /\ Len(trace'[Len(trace')].detail) <= 200
          /\ trace'[Len(trace')].error \in {"rate_limit", "api_status", "unknown"}
          /\ Hides(ret'.ret.finalText, f.detail)
          /\ ret'.ret.router.trace = trace'
          /\ \A g \in ModelFailures :
               (g.exc = f.exc /\ g.status_code = f.status_code)
                 => ret'.ret.finalText = Friendly(g)
    ]_vars

\* C19 witness: a rate-limit failure whose detail is longer than the limit
\* has ended the turn; the trace entry holds its first 200 characters.
C19_Witness ==
  /\ TurnReturned /\ decisions # <<>> /\ decisions[Len(decisions)] = "error"
  /\ trace[Len(trace)].error = "rate_limit"
  /\ trace[Len(trace)].detail = SubSeq(LongDetail, 1, 200)
  /\ Len(LongDetail) > 200
  /\ ret.ret.finalText = RateLimitFriendly

\* the tool-use blocks of the response of the current hop, in its order
Requested == SelectSeq(blocks, LAMBDA b : b.type = "tool_use")

\* results rs answer the first Len(rs) requested tool-uses, one block
\* each, in order
AnswersInOrder(rs) ==
  /\ Len(rs) <= Len(Requested)
  /\ \A i \in 1..Len(rs) :
       /\ rs[i].type = "tool_result"
       /\ rs[i].tool_use_id = Requested[i].id

\* C20: within one hop the invocations are made one at a time in the order
\* of the tool-use blocks of the response (the k-th invocation is made
\* when the k-1 before it have their results, and the requests to the
\* transports follow the invocation order), and the hop appends exactly
\* one tool_result block per tool-use block, in that order, each with the
\* tool_use_id of its request.
C20_ResultsInRequestOrder ==
  /\ pc = "tools" =>
       /\ Len(resultsForModel) = tuIdx - 1
       /\ AnswersInOrder(resultsForModel)
       /\ \A i \in 1..Len(resultsForModel) :
            invoked[Len(invoked) - Len(resultsForModel) + i] = Requested[i]
  /\ (op = "chatTurn" /\ pc = "loop" /\ decisions # <<>>) =>
       LET sent == messages[Len(messages) - 1].content.blocks IN
       /\ Len(sent) = Len(Requested)
       /\ AnswersInOrder(sent)
       /\ ToolResultsIn(<<messages[Len(messages) - 2], messages[Len(messages)]>>) = <<>>
  /\ op = "chatTurn" =>
       \A i, j \in 1..Len(requests) : i < j => requests[i].call < requests[j].call

\* C20 witness: a hop with two tool-use blocks has ended and the message
\* for the model holds their two results, first tu1 then tu2.
C20_Witness ==
  /\ op = "chatTurn" /\ pc = "loop" /\ Len(Requested) = 2
  /\ Requested[1].id = "tu1" /\ Requested[2].id = "tu2"
  /\ Len(messages[Len(messages) - 1].content.blocks) = 2
  /\ messages[Len(messages) - 1].content.blocks[1].tool_use_id = "tu1"
  /\ messages[Len(messages) - 1].content.blocks[2].tool_use_id = "tu2"

StartEnded == pc = "done" /\ op = "start"

\* the provider did not do what the request asked: no answer, a failure
\* status, or a JSON-RPC error
RequestFailed(req) == req.answer.kind \in {"silent", "status", "error"}

\* C21: when a transport fails while the engine starts (no answer to
\* initialize, or a tools/list that fails), start() raises instead of
\* returning with a catalog that lacks that transport's tools.
C21_StartFailsLoudly ==
  (StartEnded /\ \E i \in 1..Len(requests) : RequestFailed(requests[i].req))
    => Raised(ret)

\* C30: when start() has returned, every configured transport, process
\* and service variant alike, was sent an initialize request that was
\* answered, before the first tools/list request to that transport.
C30_InitializeBeforeList ==
  StartReturned =>
    \A k \in 1..Len(Transports) :
      \E i \in 1..Len(requests) :
        /\ requests[i].req.to = Transports[k]
        /\ requests[i].req.method = "initialize"
        /\ requests[i].req.answer.kind = "result"
        /\ \A j \in 1..Len(requests) :
             (requests[j].req.to = Transports[k] /\ requests[j].req.method = "tools/list")
               => i < j

ParseEnded == pc = "done" /\ op = "parseTextBlock"

\* the text parseTextBlock read from the envelope
RawText == prettyJsonFromMcpResult(invoked[1].rawResp)

IsListTools(j) == invoked[j].op = "listTools"

\* the j-th call of the client sent a request to the service
SentRequest(j) == \E i \in 1..Len(requests) : requests[i].call = j

\* C26: once a listTools() call has returned, every later listTools() call
\* returns the same catalog and sends no request to the service; while no
\* listTools() call has returned yet, each one sends a request.
C26_ListToolsCachedAfterFirstSuccess ==
  \A j \in 1..Len(invoked) :
    IsListTools(j) =>
      LET before == {i \in 1..(j - 1) : IsListTools(i) /\ ~Raised(invoked[i].out)} IN
      /\ \A i \in before : invoked[j].out = invoked[i].out /\ ~SentRequest(j)
      /\ before = {} => SentRequest(j)

\* thread c's call of `name` has ended
CallEnded(c, name) == thr[c].pc = "done" /\ thr[c].op = name

\* thread c's rpc has ended (the call was start, listTools or callTool)
RpcEnded(c) == thr[c].pc = "done" /\ thr[c].op \in {"initialize", "tools/list", "tools/call"}

\* the request of thread c's call was written to a provider
Written(c) == \E i \in 1..Len(requests) : requests[i].req.id = thr[c].id

\* C22: when stop() has returned, every process the client spawned has been
\* asked to terminate (or has exited), whatever calls came before,
\* a repeated start() included.
C22_StopReachesEverySpawnedProcess ==
  \A c \in Threads :
    CallEnded(c, "stop") => \A p \in 1..Len(procs) : procs[p] \in {"asked", "exited"}

\* C23: the response rpc returns carries the id of the request that call
\* sent; a response with another id is never returned.
C23_ReturnsOnlyMatchingId ==
  \A c \in Threads :
    (RpcEnded(c) /\ ~Raised(thr[c].out)) =>
      /\ Written(c)
      /\ thr[c].out.ret.py = "dict"
      /\ "id" \in DOMAIN thr[c].out.ret.d
      /\ thr[c].out.ret.d.id = thr[c].id

\* the answer to an earlier request was discarded, then the call's own
\* answer was returned
C23_Witness ==
  /\ RpcEnded(1) /\ thr[1].stale
  /\ thr[1].id = 2
  /\ thr[1].out = [ret |-> PyDict([jsonrpc |-> "2.0", id |-> 2, result |-> <<>>])]

\* C24: an rpc that wrote its request and got no response with its id ends
\* by raising TimeoutError.
C24_UnansweredRpcRaisesTimeout ==
  \A c \in Threads :
    (RpcEnded(c) /\ Written(c) /\ Raised(thr[c].out)) => thr[c].out.exc = "TimeoutError"

\* C25: stop() never raises and returns None; on a client that was never
\* started, whose process has exited, or that was stopped before, it
\* changes nothing; otherwise it asks the current process to terminate and
\* touches nothing else.
C25_StopIsIdempotent ==
  [][\A c \in Threads :
       (thr[c].pc = "idle" /\ thr'[c].op = "stop") =>
         /\ thr'[c].pc = "done" /\ thr'[c].out = [ret |-> None]
         /\ proc' = proc /\ outQ' = outQ /\ _id' = _id /\ _lock' = _lock
         /\ IF proc # 0 /\ procs[proc] = "running"
            THEN procs' = [procs EXCEPT ![proc] = "asked"]
            ELSE procs' = procs]_vars

\* stop() returned on a client that was never started
C25_Witness ==
  /\ CallEnded(1, "stop") /\ thr[1].out = [ret |-> None]
  /\ proc = 0 /\ procs = <<>>

\* C28: a dequeued line that is not the response to the pending request is
\* skipped: the call does not end, it keeps waiting.
C28_OtherLinesAreSkipped ==
  [][\A c \in Threads :
       (/\ InLoop(c)
        /\ outQ # <<>> /\ outQ' = Tail(outQ)
        /\ ~IsResponseTo(Head(outQ), thr[c].id))
         => thr'[c].pc \in {"wait", "get"}]_vars

\* C29: the ids nextId hands out are strictly increasing in the order in
\* which it hands them out, so none is handed out twice, whichever threads
\* call it; and the requests one thread writes carry increasing ids.
C29_IdsStrictlyIncreasing ==
  /\ \A i, j \in 1..Len(invoked) : i < j => invoked[i] < invoked[j]
  /\ \A i, j \in 1..Len(requests) :
       (i < j /\ requests[i].call = requests[j].call)
         => requests[i].req.id < requests[j].req.id
  /\ \A i, j \in 1..Len(requests) : i # j => requests[i].req.id # requests[j].req.id

\* two threads hold the ids of two requests at once, after initialize
C29_Witness ==
  /\ thr[1].pc = "send" /\ thr[2].pc = "send"
  /\ thr[1].op = "tools/call" /\ thr[2].op = "tools/call"
  /\ thr[1].id = 3 /\ thr[2].id = 2
  /\ invoked = <<1, 2, 3>>

\* the requests the j-th call of the service client sent
RequestsOf(j) == {i \in 1..Len(requests) : requests[i].call = j}

\* C31: every rpc() call sends exactly one POST; a non-success status
\* raises HTTPError whatever the body holds; otherwise a body with an
\* "error" field raises RuntimeError; otherwise the body's result is
\* returned.
C31_OnePostClassifiedInOrder ==
  \A j \in 1..Len(invoked) :
    invoked[j].op = "rpc" =>
      /\ Cardinality(RequestsOf(j)) = 1
      /\ \A i \in RequestsOf(j) :
           LET a   == requests[i].req.answer
               out == invoked[j].out
           IN  a.kind = "http" =>
                 IF ~StatusOk(a.status)
                 THEN Raised(out) /\ out.exc = "HTTPError"
                 ELSE IF "error" \in DOMAIN a.body
                      THEN Raised(out) /\ out.exc = "RuntimeError"
                      ELSE out = [ret |-> a.body.result]

\* a failure status whose body holds a JSON-RPC error ended as HTTPError
C31_Witness ==
  \E j \in 1..Len(invoked) :
    /\ invoked[j].op = "rpc"
    /\ Raised(invoked[j].out) /\ invoked[j].out.exc = "HTTPError"
    /\ \E i \in RequestsOf(j) :
         /\ requests[i].req.answer.kind = "http"
         /\ "error" \in DOMAIN requests[i].req.answer.body

\* the provider answer that a process transport's rpc returns as `env`
AnswerOf(env) ==
  IF "error" \in DOMAIN env THEN [kind |-> "error", error |-> env.error]
  ELSE [kind |-> "result", result |-> env.result]

\* what the engine obtains from cli.callTool for a provider answer: the
\* parsed result, or the failure
EngineValue(cli, answer) ==
  LET r == ClientCallTool(cli, "t", EmptyDict, answer) IN
  IF Raised(r) THEN r ELSE [ret |-> parseTextBlock(r.ret)]

\* C32: for one provider answer to tools/call, the engine obtains the same
\* value (parsed result or failure) from the service transport as from a
\* process transport.
C32_SameValueOnBothTransports ==
  (op = "parseTextBlock" /\ pc = "parsed") =>
    LET answer == AnswerOf(invoked[1].rawResp) IN
    /\ EngineValue(StdioClient(1), answer) = [ret |-> ret.ret]
    /\ EngineValue(httpClient, answer) = [ret |-> ret.ret]

\* the content sequence of a result envelope
ContentOf(env) ==
  IF "result" \in DOMAIN env /\ "content" \in DOMAIN env.result THEN env.result.content
  ELSE <<>>

\* the positions of the blocks of type text
TextPositions(content) == {i \in 1..Len(content) : content[i].type = "text"}

\* C33: when the result envelope's content holds a block of type text, the
\* value parseTextBlock returns comes from the first such block, wherever
\* it stands: the parsed value when its text is JSON, the text otherwise.
C33_FirstTextBlockWhereverItStands ==
  (op = "parseTextBlock" /\ pc = "parsed") =>
    LET content == ContentOf(invoked[1].rawResp)
        at      == TextPositions(content)
    IN  at # {} =>
          LET text == content[CHOOSE i \in at : \A j \in at : i <= j].text IN
          ret.ret = IF text.t = "json" THEN text.v ELSE AsStr(text)

\* C34: with diagnostics disabled chatTurn returns an empty trace on every
\* path, a backend failure included; with diagnostics enabled the returned
\* trace holds exactly one entry for each model call made.
C34_TraceOnlyWhenDiagnosticsEnabled ==
  TurnReturned =>
    IF routerDebug THEN Len(ret.ret.router.trace) = modelCalls
    ELSE ret.ret.router.trace = <<>>

\* C35: the tool name is resolved before the arguments are sanitized: an
\* invocation of a name absent from the ownership map whose arguments hold
\* a path outside the allowed roots reports the unknown-tool error, in
\* callTool and for a tool-use block of chatTurn.
C35_NameResolvedBeforeSanitizing ==
  \A i \in 1..Len(invoked) :
    (/\ op \in {"chatTurn", "callTool"}
     /\ invoked[i].name \notin DOMAIN toolIndex
     /\ ArgsBlocked(invoked[i].input)) =>
      IF op = "callTool"
      THEN Raised(ret) /\ ret.msg[1] = "Unknown tool"
      ELSE "error" \in DOMAIN toolCalls[i] /\ toolCalls[i].error[1] = "Unknown tool"

\* the tool_use blocks of a conversation, in order
RECURSIVE ToolUsesIn(_)
ToolUsesIn(msgs) ==
  IF msgs = <<>> THEN <<>>
  ELSE (IF "blocks" \in DOMAIN Head(msgs).content
        THEN SelectSeq(Head(msgs).content.blocks, LAMBDA b : b.type = "tool_use")
        ELSE <<>>) \o ToolUsesIn(Tail(msgs))

\* the messages the turn appended after the user's text
Appended == SubSeq(messages, Len(history) + 2, Len(messages))

\* C37: when a turn ends by hop exhaustion, the tool-uses of the maxHops-th
\* response were invoked and are the last records of the ledger, their
\* results are the last results appended, no model call followed, and the
\* ledger holds one record for every tool-use block of the maxHops
\* responses.
C37_LastHopToolsInvoked ==
  (TurnReturned /\ maxHops > 0 /\ Len(decisions) = maxHops /\ AllToolUse) =>
    LET calls == ret.ret.tools.calls
        last  == ToolUsesOf(blocks)
        n     == Len(last)
    IN  /\ n > 0
        /\ modelCalls = maxHops
        /\ Len(invoked) >= n /\ Len(calls) = Len(invoked)
        /\ \A i \in 1..n :
             /\ invoked[Len(invoked) - n + i] = last[i]
             /\ calls[Len(calls) - n + i].tool = last[i].name
        /\ Len(ToolUsesIn(Appended)) = Len(calls)
        /\ Len(Appended) = 3 * maxHops
        /\ LET results == messages[Len(messages) - 1].content.blocks IN
             /\ Len(results) = n
             /\ \A i \in 1..n : results[i].tool_use_id = last[i].id

\* three hops of two tool-uses each: six records, more than the four that
\* two responses could hold
C37_Witness ==
  /\ TurnReturned /\ maxHops = 3 /\ Len(decisions) = 3 /\ AllToolUse
  /\ Len(ToolUsesOf(blocks)) = 2
  /\ Len(ret.ret.tools.calls) = 6

\* C38: a start() that raises leaves the ownership map and the catalog as
\* they were before the call, so a fresh engine still owns no tool.
C38_FailedStartChangesNothing ==
  [][(pc = "idle" /\ pc' = "done" /\ op' = "start" /\ Raised(ret'))
       => (toolIndex' = toolIndex /\ toolsCatalog' = toolsCatalog)]_vars

\* the input line is a request: a JSON object with a non-null id, a method
\* and, when it has params, an object as params
WellFormedRequest(line) ==
  /\ line.t = "json" /\ line.v.py = "dict"
  /\ IdOf(line.v.d) # PyNone
  /\ "method" \in DOMAIN line.v.d
  /\ "params" \in DOMAIN line.v.d => line.v.d.params.py = "dict"

\* the input line is a notification or cannot be parsed
Unanswerable(line) ==
  \/ line.t # "json"
  \/ line.v.py = "dict" /\ IdOf(line.v.d) = PyNone

\* the request is one the provider answers with an error
AnsweredWithError(line) ==
  LET d == line.v.d IN
  \/ d.method \notin {"initialize", "tools/list", "tools/call"}
  \/ d.method = "tools/call" /\ d.params.d.name = "raises"

\* the response lines written while input line i was handled
ResponsesTo(i) == {j \in 1..Len(invoked) : invoked[j].line = i}

\* C39: the provider writes exactly one response line, with the request's
\* id, for every input line that is a request with a non-null id (an error
\* when the method is unknown or the tool fails, else a result), and none
\* for a notification or a line that cannot be parsed.
C39_OneResponsePerRequest ==
  \A i \in 1..Len(requests) :
    LET line == requests[i] IN
    /\ WellFormedRequest(line) =>
         /\ Cardinality(ResponsesTo(i)) = 1
         /\ \A j \in ResponsesTo(i) :
              /\ invoked[j].resp.id = line.v.d.id
              /\ invoked[j].resp.kind = (IF AnsweredWithError(line) THEN "error" ELSE "result")
    /\ Unanswerable(line) => ResponsesTo(i) = {}

\* C40: a sendRequest that wrote its request ends, by returning or by
\* failing, whatever the provider does.
C40_SendRequestEnds == (thr[1].pc = "wait") ~> (thr[1].pc = "done")

\* C36: with one caller at a time, an rpc whose response was enqueued
\* before its deadline ends by returning that response.
C36_AnsweredInTimeIsReturned ==
  \A c \in Threads :
    (RpcEnded(c) /\ thr[c].answered) => thr[c].out = [ret |-> ResponseLine(thr[c].id).v]

\* two callers at once: thread 1 discarded a response with another id and
\* thread 2 timed out on a request that was written
C36_ResponseLost ==
  /\ thr[1].stale
  /\ RpcEnded(2) /\ Written(2)
  /\ Raised(thr[2].out) /\ thr[2].out.exc = "TimeoutError"

====
